---- MODULE Spec2Model ----
(***************************************************************************)
(* Meal planner: the persisted stores (meal plan, shopping list,           *)
(* favorites, recent searches), the ingredient categorizer and the         *)
(* shopping-list aggregator.                                               *)
(*                                                                         *)
(* JavaScript strings are sequences of one-character strings, so that      *)
(* toLowerCase() and includes() are computed, not assumed.  A value that   *)
(* may be null/undefined is an option record: None or Some(v).             *)
(***************************************************************************)
EXTENDS Integers, Sequences, FiniteSets, TLC

VARIABLES mealPlan, shoppingList, favorites, recentSearches,
          pendingGen, last, catCall, now, pendingFav,
          apiCache, requests, searchPage

vars == <<mealPlan, shoppingList, favorites, recentSearches,
          pendingGen, last, catCall, now, pendingFav,
          apiCache, requests, searchPage>>

search == <<apiCache, requests, searchPage>>

stores == <<mealPlan, shoppingList, favorites, recentSearches>>

----------------------------------------------------------------------------
(* Optional values (null / undefined / absent property).                   *)

None == [some |-> FALSE]

Some(v) == [some |-> TRUE, val |-> v]

\* JS `s || d` on an optional string: null, undefined and '' are falsy.
StrOr(opt, d) == IF opt.some /\ opt.val # <<>> THEN opt.val ELSE d

\* JS `n || 0` on an optional number: null, undefined and 0 are falsy.
NumOr(opt, d) == IF opt.some /\ opt.val # 0 THEN opt.val ELSE d

----------------------------------------------------------------------------
(* Strings.                                                                *)

UpperChars == <<"A", "B", "C", "D", "E", "F", "G", "H", "I", "J", "K", "L", "M",
                "N", "O", "P", "Q", "R", "S", "T", "U", "V", "W", "X", "Y", "Z">>

LowerChars == <<"a", "b", "c", "d", "e", "f", "g", "h", "i", "j", "k", "l", "m",
                "n", "o", "p", "q", "r", "s", "t", "u", "v", "w", "x", "y", "z">>

LowerChar(c) ==
    IF \E i \in 1..Len(UpperChars) : UpperChars[i] = c
    THEN LowerChars[CHOOSE i \in 1..Len(UpperChars) : UpperChars[i] = c]
    ELSE c

UpperChar(c) ==
    IF \E i \in 1..Len(LowerChars) : LowerChars[i] = c
    THEN UpperChars[CHOOSE i \in 1..Len(LowerChars) : LowerChars[i] = c]
    ELSE c

\* String.prototype.toLowerCase
toLowerCase(s) == [i \in 1..Len(s) |-> LowerChar(s[i])]

\* String.prototype.toUpperCase
toUpperCase(s) == [i \in 1..Len(s) |-> UpperChar(s[i])]

\* String.prototype.includes
includes(s, sub) ==
    \E i \in 0..(Len(s) - Len(sub)) : SubSeq(s, i + 1, i + Len(sub)) = sub

----------------------------------------------------------------------------
(* Ingredient categorizer.                                                 *)

Categories == {"produce", "meat", "dairy", "grains", "pantry", "spices", "other"}

\* The keywords of the if / else-if chain, in source order.
Keywords == <<
     <<"p", "r", "o", "d", "u", "c", "e">>,
     <<"v", "e", "g", "e", "t", "a", "b", "l", "e">>,
     <<"f", "r", "u", "i", "t">>,
     <<"m", "e", "a", "t">>,
     <<"s", "e", "a", "f", "o", "o", "d">>,
     <<"p", "o", "u", "l", "t", "r", "y">>,
     <<"d", "a", "i", "r", "y">>,
     <<"c", "h", "e", "e", "s", "e">>,
     <<"m", "i", "l", "k">>,
     <<"b", "r", "e", "a", "d">>,
     <<"b", "a", "k", "e", "r", "y">>,
     <<"g", "r", "a", "i", "n">>,
     <<"s", "p", "i", "c", "e">>,
     <<"c", "o", "n", "d", "i", "m", "e", "n", "t">>,
     <<"o", "i", "l">>,
     <<"c", "a", "n", "n", "e", "d">>,
     <<"j", "a", "r">> >>

categorizeIngredient_NoLower(aisle) ==
    LET aisleStr == StrOr(aisle, <<>>)
        has(k) == includes(aisleStr, Keywords[k])
    IN  IF has(1) \/ has(2) \/ has(3) THEN "produce"
        ELSE IF has(4) \/ has(5) \/ has(6) THEN "meat"
        ELSE IF has(7) \/ has(8) \/ has(9) THEN "dairy"
        ELSE IF has(10) \/ has(11) \/ has(12) THEN "grains"
        ELSE IF has(13) \/ has(14) \/ has(15) THEN "spices"
        ELSE IF has(16) \/ has(17) THEN "pantry"
        ELSE "other"

categorizeIngredient_SpicesFirst(aisle) ==
    LET aisleStr == toLowerCase(StrOr(aisle, <<>>))
        has(k) == includes(aisleStr, Keywords[k])
    IN  IF has(13) \/ has(14) \/ has(15) THEN "spices"
        ELSE IF has(1) \/ has(2) \/ has(3) THEN "produce"
        ELSE IF has(4) \/ has(5) \/ has(6) THEN "meat"
        ELSE IF has(7) \/ has(8) \/ has(9) THEN "dairy"
        ELSE IF has(10) \/ has(11) \/ has(12) THEN "grains"
        ELSE IF has(16) \/ has(17) THEN "pantry"
        ELSE "other"

categorizeIngredient(aisle) ==
    LET aisleStr == toLowerCase(StrOr(aisle, <<>>))
        has(k) == includes(aisleStr, Keywords[k])
    IN  IF has(1) \/ has(2) \/ has(3) THEN "produce"
        ELSE IF has(4) \/ has(5) \/ has(6) THEN "meat"
        ELSE IF has(7) \/ has(8) \/ has(9) THEN "dairy"
        ELSE IF has(10) \/ has(11) \/ has(12) THEN "grains"
        ELSE IF has(13) \/ has(14) \/ has(15) THEN "spices"
        ELSE IF has(16) \/ has(17) THEN "pantry"
        ELSE "other"

----------------------------------------------------------------------------
(* Calls of categorizeIngredient on hints assembled from keywords.          *)

\* Longest hint, in pieces, handed to the categorizer.
MaxPieces == 2

\* Words that contain no keyword.
Fillers == << <<"s", "a", "l", "t">>, <<"e", "g", "g">> >>

Pieces == Keywords \o Fillers

\* The rule (branch of the if / else-if chain) a keyword belongs to.
KeywordRule == <<1, 1, 1, 2, 2, 2, 3, 3, 3, 4, 4, 4, 5, 5, 5, 6, 6>>

\* The category each branch returns.
RuleCategory == <<"produce", "meat", "dairy", "grains", "spices", "pantry">>

PieceSeqs == UNION {[1..n -> 1..Len(Pieces)] : n \in 0..MaxPieces}

RECURSIVE Join(_)
Join(p) ==
    IF Len(p) = 0 THEN <<>>
    ELSE IF Len(p) = 1 THEN Pieces[p[1]]
    ELSE Pieces[p[1]] \o <<" ">> \o Join(Tail(p))

Casings == {"lower", "upper", "title"}

Cased(c, s) ==
    CASE c = "lower" -> s
      [] c = "upper" -> toUpperCase(s)
      [] c = "title" -> [i \in 1..Len(s) |-> IF i = 1 THEN UpperChar(s[i]) ELSE s[i]]

CatInput(pieces, hint, variant) ==
    [called |-> FALSE, pieces |-> pieces, hint |-> hint, variant |-> variant,
     result |-> "", variantResult |-> ""]

NoCall == CatInput(<<>>, None, None)

\* The hints tried: null, and every sequence of pieces in two letter cases.
CatInputs ==
    {NoCall} \cup
    {CatInput(p, Some(Cased(c1, Join(p))), Some(Cased(c2, Join(p)))) :
        p \in PieceSeqs, c1 \in Casings, c2 \in Casings}

\* categorizeIngredient(hint) and categorizeIngredient(variant), where hint and
\* variant are the same words in two letter cases (or both null).
Categorize ==
    /\ ~catCall.called
    /\ catCall' = [catCall EXCEPT !.called = TRUE,
                                  !.result = categorizeIngredient(catCall.hint),
                                  !.variantResult = categorizeIngredient(catCall.variant)]
    /\ UNCHANGED <<stores, pendingGen, last, now, pendingFav, search>>

----------------------------------------------------------------------------
(* Recipes and ingredients (values received from the recipe data source).  *)

Str_flour == <<"f", "l", "o", "u", "r">>

Str_Flour == <<"F", "l", "o", "u", "r">>

Str_milk == <<"m", "i", "l", "k">>

Str_egg == <<"e", "g", "g">>

Str_g == <<"g">>

Str_cup == <<"c", "u", "p">>

Str_kg == <<"k", "g">>

Str_ml == <<"m", "l">>

Str_Baking == <<"B", "a", "k", "i", "n", "g">>

Str_Produce == <<"P", "r", "o", "d", "u", "c", "e">>

Str_MilkDairy == <<"M", "i", "l", "k", " ", "D", "a", "i", "r", "y">>

Ingredient(name, amount, unit, aisle) ==
    [name |-> name, amount |-> amount, unit |-> unit, aisle |-> aisle]

\* The recipes the data source can deliver; a plan slot holds the index of one
\* of them (its snapshot), or 0 for null.
RecipeBook == <<
    [id |-> 1,
     extendedIngredients |-> Some(<<
        Ingredient(Str_flour, Some(2), Some(Str_g), Some(Str_Baking)),
        Ingredient(Str_milk, None, None, Some(Str_MilkDairy)),
        Ingredient(Str_Flour, Some(1), Some(Str_cup), None) >>)],
    [id |-> 2,
     extendedIngredients |-> Some(<<
        Ingredient(Str_milk, Some(3), Some(Str_ml), None),
        Ingredient(Str_flour, Some(1), Some(Str_kg), Some(Str_Produce)) >>)],
    [id |-> 3, extendedIngredients |-> None],
    [id |-> 4,
     extendedIngredients |-> Some(<<
        Ingredient(Str_egg, Some(0), Some(<<>>), Some(<<>>)),
        Ingredient(Str_Flour, Some(2), None, Some(Str_Baking)) >>)],
    [id |-> 5, extendedIngredients |-> Some(<<>>)] >>

\* Number of distinct recipes in play.
NumRecipes == 3

Recipes == 1..NumRecipes

NullRecipe == 0

----------------------------------------------------------------------------
(* Meal plan store.                                                        *)

DAYS == <<"monday", "tuesday", "wednesday", "thursday", "friday", "saturday", "sunday">>

MEAL_TYPES == <<"breakfast", "lunch", "dinner">>

DaySet == {DAYS[i] : i \in 1..Len(DAYS)}

MealTypeSet == {MEAL_TYPES[i] : i \in 1..Len(MEAL_TYPES)}

\* A day's object is the ordered list of its own properties (Object.keys order:
\* insertion order for non-numeric keys), each holding a recipe or null.
EmptyDay ==
    << [k |-> "breakfast", v |-> NullRecipe],
       [k |-> "lunch", v |-> NullRecipe],
       [k |-> "dinner", v |-> NullRecipe] >>

EmptyPlan ==
    [monday |-> EmptyDay, tuesday |-> EmptyDay, wednesday |-> EmptyDay,
     thursday |-> EmptyDay, friday |-> EmptyDay, saturday |-> EmptyDay,
     sunday |-> EmptyDay]

\* Properties every plain object inherits from Object.prototype: `obj[key]` is
\* truthy for them although they are no own property.
ObjectPrototypeKeys == {"constructor", "toString", "valueOf", "hasOwnProperty"}

saveToStorage(data) == Some(data)

\* A record whose text JSON.parse throws on (or whose getItem throws).
Garbled == [some |-> TRUE, garbled |-> TRUE]

\* getFromStorage: the parsed value, null when nothing is stored, and null
\* when reading or parsing throws (caught and logged).
getFromStorage(stored) == IF stored = Garbled THEN None ELSE stored

getMealPlan_NoDefault(stored) ==
    IF getFromStorage(stored).some THEN getFromStorage(stored).val ELSE <<>>

getMealPlan(stored) ==
    IF getFromStorage(stored).some THEN getFromStorage(stored).val ELSE EmptyPlan

HasOwn(obj, key) == \E i \in 1..Len(obj) : obj[i].k = key

\* obj[key]: the value, or null when there is no such own property.
GetProp(obj, key) ==
    IF HasOwn(obj, key)
    THEN obj[CHOOSE i \in 1..Len(obj) : obj[i].k = key].v
    ELSE NullRecipe

\* obj[key] = value: an existing property keeps its position, a new one is
\* appended.
SetProp(obj, key, value) ==
    IF HasOwn(obj, key)
    THEN [obj EXCEPT ![CHOOSE i \in 1..Len(obj) : obj[i].k = key] = [k |-> key, v |-> value]]
    ELSE Append(obj, [k |-> key, v |-> value])

\* `mealPlan[day]` is truthy.
DayTruthy(plan, day) == day \in DOMAIN plan \/ day \in ObjectPrototypeKeys

addMealToPlan_WrongSlot(stored, day, mealType, recipe) ==
    LET plan == getMealPlan(stored)
    IN  IF ~DayTruthy(plan, day)
        THEN [ret |-> FALSE, stored |-> stored]
        ELSE IF day \in DOMAIN plan
        THEN [ret |-> TRUE,
              stored |-> saveToStorage([plan EXCEPT ![day] = SetProp(@, MEAL_TYPES[1], recipe)])]
        ELSE [ret |-> TRUE, stored |-> saveToStorage(plan)]

\* The result of addMealToPlan: its return value and the persisted record.
addMealToPlan(stored, day, mealType, recipe) ==
    LET plan == getMealPlan(stored)
    IN  IF ~DayTruthy(plan, day)
        THEN [ret |-> FALSE, stored |-> stored]
        ELSE IF day \in DOMAIN plan
        THEN [ret |-> TRUE,
              stored |-> saveToStorage([plan EXCEPT ![day] = SetProp(@, mealType, recipe)])]
        \* the write lands on the inherited object, the plan is saved as read
        ELSE [ret |-> TRUE, stored |-> saveToStorage(plan)]

removeMealFromPlan(stored, day, mealType) ==
    LET plan == getMealPlan(stored)
    IN  IF ~DayTruthy(plan, day)
        THEN [ret |-> FALSE, stored |-> stored]
        ELSE IF day \in DOMAIN plan
        THEN [ret |-> TRUE,
              stored |-> saveToStorage([plan EXCEPT ![day] = SetProp(@, mealType, NullRecipe)])]
        ELSE [ret |-> TRUE, stored |-> saveToStorage(plan)]

clearMealPlan == saveToStorage(EmptyPlan)

RECURSIVE MealsOfDays(_, _)
MealsOfDays(plan, days) ==
    IF days = <<>> THEN <<>>
    ELSE LET day == Head(days)
             populated == SelectSeq(plan[day], LAMBDA e : e.v # NullRecipe)
         IN  [i \in 1..Len(populated) |->
                 [day |-> day, mealType |-> populated[i].k, recipe |-> populated[i].v]]
             \o MealsOfDays(plan, Tail(days))

getAllMealsFromPlan(stored) == MealsOfDays(getMealPlan(stored), DAYS)

----------------------------------------------------------------------------
(* Shopping-list aggregator.                                               *)

\* ingredients.has(name): position of the Map entry keyed by name, 0 if none.
MapIndex(ingredients, name) ==
    IF \E i \in 1..Len(ingredients) : ingredients[i].name = name
    THEN CHOOSE i \in 1..Len(ingredients) : ingredients[i].name = name
    ELSE 0

NewEntry(ingredient) ==
    [name |-> ingredient.name,
     category |-> categorizeIngredient(Some(StrOr(ingredient.aisle, ingredient.name))),
     amount |-> NumOr(ingredient.amount, 0),
     unit |-> StrOr(ingredient.unit, <<>>),
     checked |-> FALSE]

AddIngredient_LowerKey(ingredients, ingredient) ==
    LET at == IF \E i \in 1..Len(ingredients) :
                    toLowerCase(ingredients[i].name) = toLowerCase(ingredient.name)
              THEN CHOOSE i \in 1..Len(ingredients) :
                    toLowerCase(ingredients[i].name) = toLowerCase(ingredient.name)
              ELSE 0
    IN  IF at # 0
        THEN [ingredients EXCEPT ![at].amount = @ + NumOr(ingredient.amount, 0)]
        ELSE Append(ingredients, NewEntry(ingredient))

AddIngredient_NoSum(ingredients, ingredient) ==
    LET at == MapIndex(ingredients, ingredient.name)
    IN  IF at # 0
        THEN [ingredients EXCEPT ![at].amount = NumOr(ingredient.amount, 0)]
        ELSE Append(ingredients, NewEntry(ingredient))

AddIngredient_LastWins(ingredients, ingredient) ==
    LET at == MapIndex(ingredients, ingredient.name)
    IN  IF at # 0
        THEN [ingredients EXCEPT ![at] =
                 [NewEntry(ingredient) EXCEPT !.amount = ingredients[at].amount + @]]
        ELSE Append(ingredients, NewEntry(ingredient))

AddIngredient_LastUnit(ingredients, ingredient) ==
    LET at == MapIndex(ingredients, ingredient.name)
    IN  IF at # 0
        THEN [ingredients EXCEPT ![at].amount = @ + NumOr(ingredient.amount, 0),
                                 ![at].unit = NewEntry(ingredient).unit]
        ELSE Append(ingredients, NewEntry(ingredient))

AddIngredient_AmountRequired(ingredients, ingredient) ==
    LET at == MapIndex(ingredients, ingredient.name)
    IN  IF ~ingredient.amount.some
        THEN ingredients
        ELSE IF at # 0
        THEN [ingredients EXCEPT ![at].amount = @ + NumOr(ingredient.amount, 0)]
        ELSE Append(ingredients, NewEntry(ingredient))

\* The body of the inner forEach: one ingredient merged into the Map.
AddIngredient(ingredients, ingredient) ==
    LET at == MapIndex(ingredients, ingredient.name)
    IN  IF at # 0
        THEN [ingredients EXCEPT ![at].amount = @ + NumOr(ingredient.amount, 0)]
        ELSE Append(ingredients, NewEntry(ingredient))

RECURSIVE AddIngredients(_, _)
AddIngredients(ingredients, list) ==
    IF list = <<>> THEN ingredients
    ELSE AddIngredients(AddIngredient(ingredients, Head(list)), Tail(list))

\* The body of the outer forEach: one meal's recipe merged into the Map.
AddRecipe(ingredients, recipe) ==
    IF recipe # NullRecipe /\ RecipeBook[recipe].extendedIngredients.some
    THEN AddIngredients(ingredients, RecipeBook[recipe].extendedIngredients.val)
    ELSE ingredients

\* meals.forEach: the meals merged in order, first half then second half.
RECURSIVE AddMeals(_, _)
AddMeals(ingredients, meals) ==
    IF Len(meals) = 0 THEN ingredients
    ELSE IF Len(meals) = 1 THEN AddRecipe(ingredients, meals[1].recipe)
    ELSE LET half == Len(meals) \div 2
         IN  CHOOSE result \in
                 {AddMeals(merged, SubSeq(meals, half + 1, Len(meals))) :
                      merged \in {AddMeals(ingredients, SubSeq(meals, 1, half))}} : TRUE

generateShoppingListFromMealPlan(stored) == AddMeals(<<>>, getAllMealsFromPlan(stored))

----------------------------------------------------------------------------
(* Operations.  `last` records the latest call: its name, arguments, return *)
(* value and, for the reads, the sequence returned.                        *)

Call(op, day, mealType, recipe, ret, out) ==
    [op |-> op, day |-> day, mealType |-> mealType, recipe |-> recipe,
     ret |-> ret, out |-> out]

NoOp == Call("", "", "", NullRecipe, TRUE, <<>>)

\* Storage.addMealToPlan(day, mealType, recipe)
AddMealToPlan(day, mealType, recipe) ==
    LET r == addMealToPlan(mealPlan, day, mealType, recipe)
    IN  /\ mealPlan' = r.stored
        /\ last' = Call("addMealToPlan", day, mealType, recipe, r.ret, <<>>)
        /\ UNCHANGED <<shoppingList, favorites, recentSearches, pendingGen, catCall, search, now, pendingFav>>

\* Storage.removeMealFromPlan(day, mealType)
RemoveMealFromPlan(day, mealType) ==
    LET r == removeMealFromPlan(mealPlan, day, mealType)
    IN  /\ mealPlan' = r.stored
        /\ last' = Call("removeMealFromPlan", day, mealType, NullRecipe, r.ret, <<>>)
        /\ UNCHANGED <<shoppingList, favorites, recentSearches, pendingGen, catCall, search, now, pendingFav>>

\* Storage.clearMealPlan()
ClearMealPlan ==
    /\ mealPlan' = clearMealPlan
    /\ last' = Call("clearMealPlan", "", "", NullRecipe, TRUE, <<>>)
    /\ UNCHANGED <<shoppingList, favorites, recentSearches, pendingGen, catCall, search, now, pendingFav>>

\* Storage.getAllMealsFromPlan()
GetAllMealsFromPlan ==
    /\ last' = Call("getAllMealsFromPlan", "", "", NullRecipe, TRUE,
                    getAllMealsFromPlan(mealPlan))
    /\ UNCHANGED <<stores, pendingGen, catCall, search, now, pendingFav>>

\* Storage.generateShoppingListFromMealPlan()
GenerateShoppingListFromMealPlan ==
    /\ last' = Call("generateShoppingListFromMealPlan", "", "", NullRecipe, TRUE,
                    generateShoppingListFromMealPlan(mealPlan))
    /\ UNCHANGED <<stores, pendingGen, catCall, search, now, pendingFav>>

UpdateMealPlanSummary_Persists ==
    /\ last' = Call("updateMealPlanSummary", "", "", NullRecipe, TRUE,
                    generateShoppingListFromMealPlan(mealPlan))
    /\ mealPlan' = saveToStorage(getMealPlan(mealPlan))
    /\ UNCHANGED <<shoppingList, favorites, recentSearches, pendingGen, catCall, search, now, pendingFav>>

\* updateMealPlanSummary(): counts the meals, then the aggregated items.
UpdateMealPlanSummary ==
    /\ last' = Call("updateMealPlanSummary", "", "", NullRecipe, TRUE,
                    generateShoppingListFromMealPlan(mealPlan))
    /\ UNCHANGED <<stores, pendingGen, catCall, search, now, pendingFav>>

\* Most generateAutoMealPlan calls with their fetch pending at once.
MaxPending == 1

NumSlots == Len(DAYS) * Len(MEAL_TYPES)

\* What API.getRandomRecipes(21) can resolve to: k recipes.
Fetched(k) == [i \in 1..k |-> ((i - 1) % NumRecipes) + 1]

FetchCounts == {0, 2, NumSlots}

\* generateAutoMealPlan() up to its await: the plan is cleared, the fetch starts.
GenerateAutoMealPlanStart ==
    /\ pendingGen < MaxPending
    /\ pendingGen' = pendingGen + 1
    /\ mealPlan' = clearMealPlan
    /\ last' = Call("generateAutoMealPlan:start", "", "", NullRecipe, TRUE, <<>>)
    /\ UNCHANGED <<shoppingList, favorites, recentSearches, catCall, search, now, pendingFav>>

RECURSIVE FillRange_MealMajor(_, _, _, _)
FillRange_MealMajor(stored, recipes, from, to) ==
    IF from > to THEN stored
    ELSE IF from = to
    THEN addMealToPlan(stored,
                       DAYS[((from - 1) % Len(DAYS)) + 1],
                       MEAL_TYPES[((from - 1) \div Len(DAYS)) + 1],
                       recipes[from]).stored
    ELSE LET mid == (from + to) \div 2
         IN  CHOOSE result \in
                 {FillRange_MealMajor(filled, recipes, mid + 1, to) :
                      filled \in {FillRange_MealMajor(stored, recipes, from, mid)}} : TRUE

\* Slots from..to of the nested forEach over days and meal types, in order
\* (first half then second half): slot s takes recipes[s].
RECURSIVE FillRange(_, _, _, _)
FillRange(stored, recipes, from, to) ==
    IF from > to THEN stored
    ELSE IF from = to
    THEN addMealToPlan(stored,
                       DAYS[((from - 1) \div Len(MEAL_TYPES)) + 1],
                       MEAL_TYPES[((from - 1) % Len(MEAL_TYPES)) + 1],
                       recipes[from]).stored
    ELSE LET mid == (from + to) \div 2
         IN  CHOOSE result \in
                 {FillRange(filled, recipes, mid + 1, to) :
                      filled \in {FillRange(stored, recipes, from, mid)}} : TRUE

FillSlots(stored, recipes) ==
    FillRange(stored, recipes, 1,
              IF Len(recipes) < NumSlots THEN Len(recipes) ELSE NumSlots)

\* generateAutoMealPlan() after its await: the fetched recipes fill the slots.
GenerateAutoMealPlanFinish(recipes) ==
    /\ pendingGen > 0
    /\ pendingGen' = pendingGen - 1
    /\ mealPlan' = FillSlots(mealPlan, recipes)
    /\ last' = Call("generateAutoMealPlan:finish", "", "", NullRecipe, TRUE, recipes)
    /\ UNCHANGED <<shoppingList, favorites, recentSearches, catCall, search, now, pendingFav>>

\* Recipes whose toggleFavorite fetch is in flight: none.
NoPendingFav == [r \in Recipes |-> 0]

\* No api_cache_ entry in localStorage.
NoCache == [key \in {} |-> None]

\* No search issued yet.
NoRequests == <<>>

\* The results title, count and container before the first search completes.
NoPage == [title |-> <<>>, count |-> <<>>, loading |-> FALSE, recipes |-> <<>>]

----------------------------------------------------------------------------
(* Specifications.                                                         *)

\* The (day, mealType) arguments the callers pass: slots of the grid, a meal
\* type outside the grid, an unknown day, and a day naming an inherited property.
SlotArgs ==
    {<<"monday", "lunch">>, <<"monday", "dinner">>, <<"sunday", "breakfast">>,
     <<"monday", "snack">>, <<"funday", "lunch">>, <<"constructor", "lunch">>}

Init ==
    /\ mealPlan = None
    /\ shoppingList = None
    /\ favorites = None
    /\ recentSearches = None
    /\ pendingGen = 0
    /\ last = NoOp
    /\ catCall = NoCall
    /\ now = 1
    /\ pendingFav = NoPendingFav
    /\ apiCache = NoCache
    /\ requests = NoRequests
    /\ searchPage = NoPage

Next ==
    \/ \E a \in SlotArgs, r \in Recipes : AddMealToPlan(a[1], a[2], r)
    \/ \E a \in SlotArgs : RemoveMealFromPlan(a[1], a[2])
    \/ ClearMealPlan
    \/ GetAllMealsFromPlan
    \/ GenerateShoppingListFromMealPlan
    \/ UpdateMealPlanSummary
    \/ GenerateAutoMealPlanStart
    \/ \E k \in FetchCounts : GenerateAutoMealPlanFinish(Fetched(k))

Spec == Init /\ [][Next]_vars

InitCat ==
    /\ mealPlan = None
    /\ shoppingList = None
    /\ favorites = None
    /\ recentSearches = None
    /\ pendingGen = 0
    /\ last = NoOp
    /\ catCall \in CatInputs
    /\ now = 1
    /\ pendingFav = NoPendingFav
    /\ apiCache = NoCache
    /\ requests = NoRequests
    /\ searchPage = NoPage

NextCat == Categorize

SpecCat == InitCat /\ [][NextCat]_vars

\* The reads, started from stores that earlier sessions have filled.
ShoppingItem(id, name, category, checked, addedAt) ==
    [id |-> id, name |-> name, category |-> category, checked |-> checked,
     addedAt |-> addedAt]

PlanInputs ==
    {None} \cup
    {addMealToPlan(addMealToPlan(addMealToPlan(None,
            "monday", "lunch", a).stored,
            "monday", "dinner", b).stored,
            "sunday", "breakfast", c).stored :
        a \in Recipes \cup {NullRecipe}, b \in Recipes \cup {NullRecipe},
        c \in Recipes \cup {NullRecipe}}

InitRead ==
    /\ mealPlan \in PlanInputs
    /\ shoppingList \in {None, Some(<<>>),
                          Some(<<ShoppingItem(1, Str_milk, "dairy", TRUE, 1)>>)}
    /\ favorites \in {None, Some(<<[recipe |-> 1, addedAt |-> 1]>>)}
    /\ recentSearches \in {None, Some(<<Str_flour>>)}
    /\ pendingGen = 0
    /\ last = NoOp
    /\ catCall = NoCall
    /\ now = 1
    /\ pendingFav = NoPendingFav
    /\ apiCache = NoCache
    /\ requests = NoRequests
    /\ searchPage = NoPage

NextRead ==
    \/ GetAllMealsFromPlan
    \/ GenerateShoppingListFromMealPlan
    \/ UpdateMealPlanSummary

SpecRead == InitRead /\ [][NextRead]_vars

----------------------------------------------------------------------------
(* Shopping list store.                                                    *)

\* Latest value Date.now() returns in the modelled runs.
MaxClock == 2

\* Date.now() read when the previous reading was t: the same millisecond or a
\* later one.
Reads(t) == {u \in {t, t + 1} : u <= MaxClock}

Str_Milk == <<"M", "i", "l", "k">>

\* `item.category || 'other'`: undefined and '' are falsy.
CategoryOr(opt, d) == IF opt.some /\ opt.val # "" THEN opt.val ELSE d

getShoppingList(stored) ==
    IF getFromStorage(stored).some THEN getFromStorage(stored).val ELSE <<>>

\* list.some(i => i.name.toLowerCase() === item.name.toLowerCase())
NameExists(list, name) ==
    \E i \in 1..Len(list) : toLowerCase(list[i].name) = toLowerCase(name)

addToShoppingList_NoGuard(stored, item, id, addedAt) ==
    [ret |-> TRUE,
     stored |-> saveToStorage(Append(getShoppingList(stored),
                    ShoppingItem(id, item.name, CategoryOr(item.category, "other"),
                                 FALSE, addedAt)))]

addToShoppingList_ExactName(stored, item, id, addedAt) ==
    LET list == getShoppingList(stored)
    IN  IF \E i \in 1..Len(list) : list[i].name = item.name
        THEN [ret |-> FALSE, stored |-> stored]
        ELSE [ret |-> TRUE,
              stored |-> saveToStorage(Append(list,
                             ShoppingItem(id, item.name, CategoryOr(item.category, "other"),
                                          FALSE, addedAt)))]

\* addToShoppingList(item), where id and addedAt are its two Date.now() readings.
addToShoppingList(stored, item, id, addedAt) ==
    LET list == getShoppingList(stored)
    IN  IF NameExists(list, item.name)
        THEN [ret |-> FALSE, stored |-> stored]
        ELSE [ret |-> TRUE,
              stored |-> saveToStorage(Append(list,
                             ShoppingItem(id, item.name, CategoryOr(item.category, "other"),
                                          FALSE, addedAt)))]

\* list.filter(item => item.id !== itemId), saved.
removeFromShoppingList(stored, itemId) ==
    saveToStorage(SelectSeq(getShoppingList(stored), LAMBDA item : item.id # itemId))

toggleShoppingItem_SetChecked(stored, itemId) ==
    LET list == getShoppingList(stored)
        hits == {i \in 1..Len(list) : list[i].id = itemId}
    IN  IF hits = {} THEN [ret |-> FALSE, stored |-> stored]
        ELSE LET at == CHOOSE i \in hits : \A j \in hits : i <= j
             IN  [ret |-> TRUE,
                  stored |-> saveToStorage([list EXCEPT ![at].checked = TRUE])]

\* list.find(i => i.id === itemId): the first match has its flag negated.
toggleShoppingItem(stored, itemId) ==
    LET list == getShoppingList(stored)
        hits == {i \in 1..Len(list) : list[i].id = itemId}
    IN  IF hits = {} THEN [ret |-> FALSE, stored |-> stored]
        ELSE LET at == CHOOSE i \in hits : \A j \in hits : i <= j
             IN  [ret |-> TRUE,
                  stored |-> saveToStorage([list EXCEPT ![at].checked = ~@])]

clearShoppingList == saveToStorage(<<>>)

\* One addToShoppingList call with the clock at t: every outcome its Date.now()
\* readings allow.  A rejected item reads no clock.
AddOne(stored, item, t) ==
    IF ~addToShoppingList(stored, item, t, t).ret
    THEN {[stored |-> stored, now |-> t, added |-> 0]}
    ELSE {[stored |-> addToShoppingList(stored, item, r[1], r[2]).stored,
           now |-> r[2], added |-> 1] :
             r \in {q \in Reads(t) \X (Reads(t) \cup Reads(t + 1)) : q[2] \in Reads(q[1])}}

\* items.forEach(item => Storage.addToShoppingList(item)), from the item at
\* position `from` on: every outcome.
RECURSIVE AddAll(_, _, _, _)
AddAll(stored, items, from, t) ==
    IF from > Len(items) THEN {[stored |-> stored, now |-> t, added |-> 0]}
    ELSE UNION {{[rest EXCEPT !.added = @ + first.added] :
                    rest \in AddAll(first.stored, items, from + 1, first.now)} :
                first \in AddOne(stored, items[from], t)}

\* The string a number is rendered as in a template literal.
DecimalDigits == <<"0", "1", "2", "3", "4", "5", "6", "7", "8", "9">>

RECURSIVE NumberToString(_)
NumberToString(n) ==
    IF n < Len(DecimalDigits) THEN <<DecimalDigits[n + 1]>>
    ELSE NumberToString(n \div Len(DecimalDigits))
         \o <<DecimalDigits[(n % Len(DecimalDigits)) + 1]>>

DigitValue(c) == (CHOOSE i \in 1..Len(DecimalDigits) : DecimalDigits[i] = c) - 1

\* parseInt of a string of decimal digits.
RECURSIVE parseInt(_)
parseInt(s) ==
    IF Len(s) = 1 THEN DigitValue(s[1])
    ELSE parseInt(SubSeq(s, 1, Len(s) - 1)) * Len(DecimalDigits) + DigitValue(s[Len(s)])

\* A call on the shopping list or the favorites: its name, argument and return
\* value, and for a loop of adds the items it was given.
ShopCall(op, arg, ret, out) == [op |-> op, arg |-> arg, ret |-> ret, out |-> out]

ManualItem(name, category) == [name |-> name, category |-> category]

\* What the add-item form submits: a trimmed non-empty name and the selected
\* category.
ManualItems ==
    {ManualItem(Str_milk, Some("dairy")), ManualItem(Str_Milk, Some("")),
     ManualItem(Str_egg, None)}

\* The add-item click handler: Storage.addToShoppingList({ name, category }).
AddToShoppingList(item) ==
    \E r \in AddOne(shoppingList, item, now) :
        /\ shoppingList' = r.stored
        /\ now' = r.now
        /\ last' = ShopCall("addToShoppingList", item, r.added = 1, <<>>)
        /\ UNCHANGED <<mealPlan, favorites, recentSearches, pendingGen, catCall, search, pendingFav>>

\* The data-id values a rendered list can carry, read back by the listeners.
ClickedIds == {parseInt(NumberToString(id)) : id \in 0..MaxClock}

\* The checkbox listener: Storage.toggleShoppingItem(parseInt(dataset.id)).
ToggleShoppingItem(itemId) ==
    LET r == toggleShoppingItem(shoppingList, itemId)
    IN  /\ shoppingList' = r.stored
        /\ last' = ShopCall("toggleShoppingItem", itemId, r.ret, <<>>)
        /\ UNCHANGED <<mealPlan, favorites, recentSearches, pendingGen, catCall, search, now, pendingFav>>

\* The delete-button listener: Storage.removeFromShoppingList(parseInt(dataset.id)).
RemoveFromShoppingList(itemId) ==
    /\ shoppingList' = removeFromShoppingList(shoppingList, itemId)
    /\ last' = ShopCall("removeFromShoppingList", itemId, TRUE, <<>>)
    /\ UNCHANGED <<mealPlan, favorites, recentSearches, pendingGen, catCall, search, now, pendingFav>>

ClearShoppingList_ClearsAll ==
    /\ shoppingList' = clearShoppingList
    /\ favorites' = None
    /\ mealPlan' = None
    /\ last' = ShopCall("clearShoppingList", 0, TRUE, <<>>)
    /\ UNCHANGED <<recentSearches, pendingGen, catCall, search, now, pendingFav>>

\* Storage.clearShoppingList()
ClearShoppingList ==
    /\ shoppingList' = clearShoppingList
    /\ last' = ShopCall("clearShoppingList", 0, TRUE, <<>>)
    /\ UNCHANGED <<mealPlan, favorites, recentSearches, pendingGen, catCall, search, now, pendingFav>>

\* An aggregated entry handed to addToShoppingList.
EntryItem(entry) ==
    [name |-> entry.name, category |-> Some(entry.category), amount |-> entry.amount,
     unit |-> entry.unit, checked |-> entry.checked]

RECURSIVE EntryItems(_)
EntryItems(entries) ==
    IF entries = <<>> THEN <<>>
    ELSE <<EntryItem(Head(entries))>> \o EntryItems(Tail(entries))

GenerateShoppingList_ClearFirst ==
    \E items \in {EntryItems(generateShoppingListFromMealPlan(mealPlan))} :
        \E r \in AddAll(clearShoppingList, items, 1, now) :
            /\ shoppingList' = r.stored
            /\ now' = r.now
            /\ last' = ShopCall("generateShoppingList", r.added, Len(items) # 0, items)
            /\ UNCHANGED <<mealPlan, favorites, recentSearches, pendingGen, catCall, search,
                           pendingFav>>

\* generateShoppingList(): the aggregated entries replace the stored list.
GenerateShoppingList ==
    \E items \in {EntryItems(generateShoppingListFromMealPlan(mealPlan))} :
        IF Len(items) = 0
        THEN /\ last' = ShopCall("generateShoppingList", 0, FALSE, items)
             /\ UNCHANGED <<stores, pendingGen, catCall, search, now, pendingFav>>
        ELSE \E r \in AddAll(clearShoppingList, items, 1, now) :
                /\ shoppingList' = r.stored
                /\ now' = r.now
                /\ last' = ShopCall("generateShoppingList", r.added, TRUE, items)
                /\ UNCHANGED <<mealPlan, favorites, recentSearches, pendingGen, catCall, search,
                               pendingFav>>

\* The item addIngredientsToShoppingList builds from one ingredient.
IngredientItem(ingredient) ==
    [name |-> ingredient.name,
     category |-> Some(categorizeIngredient(Some(StrOr(ingredient.aisle, ingredient.name))))]

RECURSIVE IngredientItems(_)
IngredientItems(list) ==
    IF list = <<>> THEN <<>>
    ELSE <<IngredientItem(Head(list))>> \o IngredientItems(Tail(list))

\* What API.getRecipeById resolves to here: null, a recipe with an ingredient
\* list (recipe 1) or one without (recipe 3).
FetchedRecipes == {NullRecipe} \cup {r \in 1..Len(RecipeBook) : RecipeBook[r].id \in {1, 3}}

\* addIngredientsToShoppingList(recipeId) after its await.
AddIngredientsToShoppingList(recipe) ==
    IF recipe = NullRecipe \/ ~RecipeBook[recipe].extendedIngredients.some
    THEN /\ last' = ShopCall("addIngredientsToShoppingList", recipe, FALSE, <<>>)
         /\ UNCHANGED <<stores, pendingGen, catCall, search, now, pendingFav>>
    ELSE \E items \in {IngredientItems(RecipeBook[recipe].extendedIngredients.val)} :
         \E r \in AddAll(shoppingList, items, 1, now) :
            /\ shoppingList' = r.stored
            /\ now' = r.now
            /\ last' = ShopCall("addIngredientsToShoppingList", recipe, TRUE, items)
            /\ UNCHANGED <<mealPlan, favorites, recentSearches, pendingGen, catCall, search,
                           pendingFav>>

\* The meal plans the shopping page is opened on.
ShopPlans ==
    {None,
     addMealToPlan(None, "monday", "lunch", 1).stored,
     addMealToPlan(addMealToPlan(None, "monday", "lunch", 1).stored,
                   "sunday", "breakfast", 2).stored}

InitShop ==
    /\ mealPlan \in ShopPlans
    /\ shoppingList = None
    /\ favorites = None
    /\ recentSearches = None
    /\ pendingGen = 0
    /\ last = NoOp
    /\ catCall = NoCall
    /\ now = 1
    /\ pendingFav = NoPendingFav
    /\ apiCache = NoCache
    /\ requests = NoRequests
    /\ searchPage = NoPage

NextShop ==
    \/ \E item \in ManualItems : AddToShoppingList(item)
    \/ \E id \in ClickedIds : ToggleShoppingItem(id)
    \/ \E id \in ClickedIds : RemoveFromShoppingList(id)
    \/ ClearShoppingList
    \/ GenerateShoppingList
    \/ \E recipe \in FetchedRecipes : AddIngredientsToShoppingList(recipe)

SpecShop == InitShop /\ [][NextShop]_vars

----------------------------------------------------------------------------
(* Favorites store.                                                        *)

\* Most toggleFavorite calls with their recipe fetch pending at once.
MaxPendingFav == 2

\* A stored favorite: the recipe snapshot (its index in the book) and addedAt.
Favorite(recipe, addedAt) == [recipe |-> recipe, addedAt |-> addedAt]

\* fav.id
FavId(fav) == RecipeBook[fav.recipe].id

getFavorites(stored) ==
    IF getFromStorage(stored).some THEN getFromStorage(stored).val ELSE <<>>

\* favorites.some(fav => fav.id === recipeId)
isInFavorites(stored, recipeId) ==
    \E i \in 1..Len(getFavorites(stored)) : FavId(getFavorites(stored)[i]) = recipeId

addToFavorites_NoCheck(stored, recipe, addedAt) ==
    [ret |-> TRUE,
     stored |-> saveToStorage(Append(getFavorites(stored), Favorite(recipe, addedAt)))]

\* addToFavorites(recipe), where addedAt is its Date.now() reading.
addToFavorites(stored, recipe, addedAt) ==
    LET favs == getFavorites(stored)
    IN  IF \E i \in 1..Len(favs) : FavId(favs[i]) = RecipeBook[recipe].id
        THEN [ret |-> FALSE, stored |-> stored]
        ELSE [ret |-> TRUE, stored |-> saveToStorage(Append(favs, Favorite(recipe, addedAt)))]

removeFromFavorites(stored, recipeId) ==
    saveToStorage(SelectSeq(getFavorites(stored), LAMBDA fav : FavId(fav) # recipeId))

clearFavorites == saveToStorage(<<>>)

\* Number of toggleFavorite calls waiting for their fetch.
RECURSIVE PendingTotal(_, _)
PendingTotal(pending, n) == IF n = 0 THEN 0 ELSE pending[n] + PendingTotal(pending, n - 1)

\* toggleFavorite(recipeId) up to its await: a stored favorite is removed,
\* otherwise the recipe fetch starts.
ToggleFavoriteStart(recipe) ==
    IF isInFavorites(favorites, RecipeBook[recipe].id)
    THEN /\ favorites' = removeFromFavorites(favorites, RecipeBook[recipe].id)
         /\ last' = ShopCall("removeFromFavorites", RecipeBook[recipe].id, TRUE, <<>>)
         /\ UNCHANGED <<mealPlan, shoppingList, recentSearches, pendingGen, catCall, search, now,
                        pendingFav>>
    ELSE /\ PendingTotal(pendingFav, NumRecipes) < MaxPendingFav
         /\ pendingFav' = [pendingFav EXCEPT ![recipe] = @ + 1]
         /\ last' = ShopCall("toggleFavorite:fetch", RecipeBook[recipe].id, TRUE, <<>>)
         /\ UNCHANGED <<stores, pendingGen, catCall, search, now>>

\* toggleFavorite(recipeId) after its await: the fetched recipe, if any, goes to
\* addToFavorites.
ToggleFavoriteFinish(recipe, found) ==
    /\ pendingFav[recipe] > 0
    /\ pendingFav' = [pendingFav EXCEPT ![recipe] = @ - 1]
    /\ IF found
       THEN \E t \in Reads(now) :
               LET r == addToFavorites(favorites, recipe, t)
               IN  /\ favorites' = r.stored
                   /\ now' = (IF r.ret THEN t ELSE now)
                   /\ last' = ShopCall("addToFavorites", RecipeBook[recipe].id, r.ret, <<>>)
       ELSE /\ last' = ShopCall("toggleFavorite:failed", RecipeBook[recipe].id, FALSE, <<>>)
            /\ UNCHANGED <<favorites, now>>
    /\ UNCHANGED <<mealPlan, shoppingList, recentSearches, pendingGen, catCall, search>>

\* toggleFavoriteDetail(recipe): the same toggle on a recipe already loaded.
ToggleFavoriteDetail(recipe) ==
    IF isInFavorites(favorites, RecipeBook[recipe].id)
    THEN /\ favorites' = removeFromFavorites(favorites, RecipeBook[recipe].id)
         /\ last' = ShopCall("removeFromFavorites", RecipeBook[recipe].id, TRUE, <<>>)
         /\ UNCHANGED <<mealPlan, shoppingList, recentSearches, pendingGen, catCall, search, now,
                        pendingFav>>
    ELSE \E t \in Reads(now) :
            LET r == addToFavorites(favorites, recipe, t)
            IN  /\ favorites' = r.stored
                /\ now' = t
                /\ last' = ShopCall("addToFavorites", RecipeBook[recipe].id, r.ret, <<>>)
                /\ UNCHANGED <<mealPlan, shoppingList, recentSearches, pendingGen, catCall, search,
                               pendingFav>>

\* Storage.isInFavorites(recipeId), as the recipe cards call it.
IsInFavorites(recipe) ==
    /\ last' = ShopCall("isInFavorites", RecipeBook[recipe].id,
                        isInFavorites(favorites, RecipeBook[recipe].id), <<>>)
    /\ UNCHANGED <<stores, pendingGen, catCall, search, now, pendingFav>>

\* Storage.clearFavorites()
ClearFavorites ==
    /\ favorites' = clearFavorites
    /\ last' = ShopCall("clearFavorites", 0, TRUE, <<>>)
    /\ UNCHANGED <<mealPlan, shoppingList, recentSearches, pendingGen, catCall, search, now,
                   pendingFav>>

InitFav ==
    /\ mealPlan = None
    /\ shoppingList = None
    /\ favorites = None
    /\ recentSearches = None
    /\ pendingGen = 0
    /\ last = NoOp
    /\ catCall = NoCall
    /\ now = 1
    /\ pendingFav = NoPendingFav
    /\ apiCache = NoCache
    /\ requests = NoRequests
    /\ searchPage = NoPage

NextFav ==
    \/ \E recipe \in Recipes : ToggleFavoriteStart(recipe)
    \/ \E recipe \in Recipes, found \in BOOLEAN : ToggleFavoriteFinish(recipe, found)
    \/ \E recipe \in Recipes : ToggleFavoriteDetail(recipe)
    \/ \E recipe \in Recipes : IsInFavorites(recipe)
    \/ ClearFavorites

SpecFav == InitFav /\ [][NextFav]_vars

----------------------------------------------------------------------------
(* Storage writes that throw.                                              *)

\* saveToStorage when localStorage.setItem throws (quota exceeded, storage
\* disabled): the exception is caught and logged, false is returned and the
\* record stays as it was.
saveToStorageThrows(stored, data) == [ret |-> FALSE, stored |-> stored]

\* A store operation run while writes throw.  It saves exactly when it would
\* return true after the save; the value saveToStorage returns is not looked at.
WriteThrows(result, stored) ==
    [ret |-> result.ret,
     stored |-> IF result.ret
                THEN saveToStorageThrows(stored, result.stored.val).stored
                ELSE result.stored,
     threw |-> result.ret]

\* A call made while writes throw: its name, its return value and whether its
\* write threw.
ThrowCall(op, r) == [op |-> op, ret |-> r.ret, threw |-> r.threw]

AddMealToPlanThrows(day, mealType, recipe) ==
    LET r == WriteThrows(addMealToPlan(mealPlan, day, mealType, recipe), mealPlan)
    IN  /\ mealPlan' = r.stored
        /\ last' = ThrowCall("addMealToPlan", r)
        /\ UNCHANGED <<shoppingList, favorites, recentSearches, pendingGen, catCall, search, now,
                       pendingFav>>

RemoveMealFromPlanThrows(day, mealType) ==
    LET r == WriteThrows(removeMealFromPlan(mealPlan, day, mealType), mealPlan)
    IN  /\ mealPlan' = r.stored
        /\ last' = ThrowCall("removeMealFromPlan", r)
        /\ UNCHANGED <<shoppingList, favorites, recentSearches, pendingGen, catCall, search, now,
                       pendingFav>>

AddToShoppingListThrows(item) ==
    LET r == WriteThrows(addToShoppingList(shoppingList, item, now, now), shoppingList)
    IN  /\ shoppingList' = r.stored
        /\ last' = ThrowCall("addToShoppingList", r)
        /\ UNCHANGED <<mealPlan, favorites, recentSearches, pendingGen, catCall, search, now,
                       pendingFav>>

ToggleShoppingItemThrows(itemId) ==
    LET r == WriteThrows(toggleShoppingItem(shoppingList, itemId), shoppingList)
    IN  /\ shoppingList' = r.stored
        /\ last' = ThrowCall("toggleShoppingItem", r)
        /\ UNCHANGED <<mealPlan, favorites, recentSearches, pendingGen, catCall, search, now,
                       pendingFav>>

AddToFavoritesThrows(recipe) ==
    LET r == WriteThrows(addToFavorites(favorites, recipe, now), favorites)
    IN  /\ favorites' = r.stored
        /\ last' = ThrowCall("addToFavorites", r)
        /\ UNCHANGED <<mealPlan, shoppingList, recentSearches, pendingGen, catCall, search, now,
                       pendingFav>>

NextThrows ==
    \/ \E a \in SlotArgs, r \in Recipes : AddMealToPlanThrows(a[1], a[2], r)
    \/ \E a \in SlotArgs : RemoveMealFromPlanThrows(a[1], a[2])
    \/ \E item \in ManualItems : AddToShoppingListThrows(item)
    \/ \E id \in ClickedIds : ToggleShoppingItemThrows(id)
    \/ \E recipe \in Recipes : AddToFavoritesThrows(recipe)

\* The mutating operations on stores filled earlier, every write throwing.
SpecThrows == InitRead /\ [][NextThrows]_vars

----------------------------------------------------------------------------
(* Reads of the four stores.                                               *)

getRecentSearches(stored) ==
    IF getFromStorage(stored).some THEN getFromStorage(stored).val ELSE <<>>

\* Storage.getMealPlan()
GetMealPlan ==
    /\ last' = ShopCall("getMealPlan", 0, TRUE, getMealPlan(mealPlan))
    /\ UNCHANGED <<stores, pendingGen, catCall, search, now, pendingFav>>

\* Storage.getShoppingList()
GetShoppingList ==
    /\ last' = ShopCall("getShoppingList", 0, TRUE, getShoppingList(shoppingList))
    /\ UNCHANGED <<stores, pendingGen, catCall, search, now, pendingFav>>

\* Storage.getFavorites()
GetFavorites ==
    /\ last' = ShopCall("getFavorites", 0, TRUE, getFavorites(favorites))
    /\ UNCHANGED <<stores, pendingGen, catCall, search, now, pendingFav>>

\* Storage.getRecentSearches()
GetRecentSearches ==
    /\ last' = ShopCall("getRecentSearches", 0, TRUE, getRecentSearches(recentSearches))
    /\ UNCHANGED <<stores, pendingGen, catCall, search, now, pendingFav>>

\* Each record is absent, unreadable, or holds what earlier calls stored.
InitGet ==
    /\ mealPlan \in ShopPlans \cup {Garbled}
    /\ shoppingList \in {None, Garbled, Some(<<ShoppingItem(1, Str_milk, "dairy", TRUE, 1)>>)}
    /\ favorites \in {None, Garbled, Some(<<Favorite(1, 1)>>)}
    /\ recentSearches \in {None, Garbled, Some(<<Str_flour>>)}
    /\ pendingGen = 0
    /\ last = NoOp
    /\ catCall = NoCall
    /\ now = 1
    /\ pendingFav = NoPendingFav
    /\ apiCache = NoCache
    /\ requests = NoRequests
    /\ searchPage = NoPage

NextGet ==
    \/ GetMealPlan
    \/ GetShoppingList
    \/ GetFavorites
    \/ GetRecentSearches

SpecGet == InitGet /\ [][NextGet]_vars

----------------------------------------------------------------------------
(* Recent searches.                                                        *)

RecentLimit == 10

Whitespace == {" ", "\t", "\n"}

RECURSIVE trimStart(_)
trimStart(s) ==
    IF s # <<>> /\ Head(s) \in Whitespace THEN trimStart(Tail(s)) ELSE s

RECURSIVE trimEnd(_)
trimEnd(s) ==
    IF s # <<>> /\ s[Len(s)] \in Whitespace
    THEN trimEnd(SubSeq(s, 1, Len(s) - 1))
    ELSE s

trim(s) == trimEnd(trimStart(s))

slice(s, n) == SubSeq(s, 1, IF Len(s) < n THEN Len(s) ELSE n)

addRecentSearch_NoFilter(stored, query) ==
    IF ~query.some \/ query.val = <<>> \/ trim(query.val) = <<>> THEN stored
    ELSE saveToStorage(slice(<<query.val>> \o getRecentSearches(stored), RecentLimit))

\* addRecentSearch(query): the record after the call.
addRecentSearch(stored, query) ==
    IF ~query.some \/ query.val = <<>> \/ trim(query.val) = <<>> THEN stored
    ELSE LET searches == getRecentSearches(stored)
             filtered == SelectSeq(searches, LAMBDA s : s # query.val)
             unshifted == <<query.val>> \o filtered
             limited == slice(unshifted, RecentLimit)
         IN  saveToStorage(limited)

clearRecentSearches(stored) == saveToStorage(<<>>)

NumQueries == 3

QueryPool == <<Str_flour, Str_milk, <<" ">> \o Str_egg, Str_cup, Str_kg>>

\* Queries a caller passes: null, the empty string, blank strings, and
\* non-blank strings.
Queries ==
    {None, Some(<<>>), Some(<<" ">>), Some(<<"\t", " ">>)}
        \cup {Some(QueryPool[i]) : i \in 1..NumQueries}

\* Ten earlier searches, the latest first.
EarlierSearches == [i \in 1..RecentLimit |-> <<"s">> \o NumberToString(i)]

\* Storage.addRecentSearch(query); out is the log read before the call.
AddRecentSearch(query) ==
    /\ recentSearches' = addRecentSearch(recentSearches, query)
    /\ last' = ShopCall("addRecentSearch", query, TRUE, getRecentSearches(recentSearches))
    /\ UNCHANGED <<mealPlan, shoppingList, favorites, pendingGen, catCall, search, now, pendingFav>>

\* Storage.clearRecentSearches()
ClearRecentSearches ==
    /\ recentSearches' = clearRecentSearches(recentSearches)
    /\ last' = ShopCall("clearRecentSearches", None, TRUE, getRecentSearches(recentSearches))
    /\ UNCHANGED <<mealPlan, shoppingList, favorites, pendingGen, catCall, search, now, pendingFav>>

\* The log is absent, unreadable, or what earlier calls left: the first k of
\* ten earlier searches.
InitRecent ==
    /\ mealPlan = None
    /\ shoppingList = None
    /\ favorites = None
    /\ recentSearches \in {None, Garbled}
           \cup {Some(SubSeq(EarlierSearches, 1, k)) : k \in {8, 9, RecentLimit}}
    /\ pendingGen = 0
    /\ last = NoOp
    /\ catCall = NoCall
    /\ now = 1
    /\ pendingFav = NoPendingFav
    /\ apiCache = NoCache
    /\ requests = NoRequests
    /\ searchPage = NoPage

NextRecent ==
    \/ \E query \in Queries : AddRecentSearch(query)
    \/ ClearRecentSearches

SpecRecent == InitRecent /\ [][NextRecent]_vars

----------------------------------------------------------------------------
(* The three stores side by side.                                          *)

\* No call has been made yet, or the last step started a handler that is
\* still awaiting its fetch.
Idle == last.op \in {"", "generateAutoMealPlan:start", "toggleFavorite:fetch"}

\* Every record is absent or holds what earlier calls stored.
InitIndep ==
    /\ mealPlan \in ShopPlans
    /\ shoppingList \in {None, Some(<<ShoppingItem(1, Str_milk, "dairy", TRUE, 1)>>)}
    /\ favorites \in {None, Some(<<Favorite(1, 1)>>)}
    /\ recentSearches \in {None, Some(<<Str_flour>>)}
    /\ pendingGen = 0
    /\ last = NoOp
    /\ catCall = NoCall
    /\ now = 1
    /\ pendingFav = NoPendingFav
    /\ apiCache = NoCache
    /\ requests = NoRequests
    /\ searchPage = NoPage

NextIndep ==
    \/ Idle /\ \E a \in SlotArgs, r \in Recipes : AddMealToPlan(a[1], a[2], r)
    \/ Idle /\ \E a \in SlotArgs : RemoveMealFromPlan(a[1], a[2])
    \/ Idle /\ ClearMealPlan
    \/ Idle /\ GetAllMealsFromPlan
    \/ Idle /\ GenerateShoppingListFromMealPlan
    \/ Idle /\ GenerateAutoMealPlanStart
    \/ Idle /\ \E k \in FetchCounts : GenerateAutoMealPlanFinish(Fetched(k))
    \/ Idle /\ \E item \in ManualItems : AddToShoppingList(item)
    \/ Idle /\ \E id \in ClickedIds : ToggleShoppingItem(id)
    \/ Idle /\ \E id \in ClickedIds : RemoveFromShoppingList(id)
    \/ Idle /\ ClearShoppingList
    \/ Idle /\ \E recipe \in Recipes : ToggleFavoriteStart(recipe)
    \/ Idle /\ \E recipe \in Recipes, found \in BOOLEAN : ToggleFavoriteFinish(recipe, found)
    \/ Idle /\ \E recipe \in Recipes : ToggleFavoriteDetail(recipe)
    \/ Idle /\ \E recipe \in Recipes : IsInFavorites(recipe)
    \/ Idle /\ ClearFavorites

SpecIndep == InitIndep /\ [][NextIndep]_vars

----------------------------------------------------------------------------
(* API response cache.                                                     *)

\* `expiryMinutes * 60 * 1000`
ExpiryMs(expiryMinutes) == expiryMinutes * 60 * 1000

\* The default of cacheAPIResponse's expiryMinutes parameter.
DefaultExpiryMinutes == 60

\* The expiryMinutes searchRecipesWithCache passes.
SearchExpiryMinutes == 30

CacheEntry(data, timestamp, expiry) ==
    [data |-> data, timestamp |-> timestamp, expiry |-> expiry]

\* localStorage.setItem, removeItem and getItem on the api_cache_ entries.
SetItem(cache, key, value) ==
    [k \in DOMAIN cache \cup {key} |-> IF k = key THEN value ELSE cache[k]]

RemoveItem(cache, key) == [k \in DOMAIN cache \ {key} |-> cache[k]]

GetItem(cache, key) == IF key \in DOMAIN cache THEN Some(cache[key]) ELSE None

\* cacheAPIResponse(key, data, expiryMinutes = 60) called when Date.now() is t.
cacheAPIResponse(cache, key, data, expiryMinutes, t) ==
    LET minutes == IF expiryMinutes.some THEN expiryMinutes.val ELSE DefaultExpiryMinutes
    IN  SetItem(cache, key, CacheEntry(data, t, ExpiryMs(minutes)))

getCachedAPIResponse_Inclusive(cache, key, t) ==
    LET cached == GetItem(cache, key)
    IN  IF ~cached.some THEN [ret |-> None, cache |-> cache]
        ELSE IF t - cached.val.timestamp <= cached.val.expiry
        THEN [ret |-> Some(cached.val.data), cache |-> cache]
        ELSE [ret |-> None, cache |-> RemoveItem(cache, key)]

\* getCachedAPIResponse(key) called when Date.now() is t: the value returned
\* (null is None) and the entries afterwards.
getCachedAPIResponse(cache, key, t) ==
    LET cached == GetItem(cache, key)
    IN  IF ~cached.some THEN [ret |-> None, cache |-> cache]
        ELSE IF t - cached.val.timestamp < cached.val.expiry
        THEN [ret |-> Some(cached.val.data), cache |-> cache]
        ELSE [ret |-> None, cache |-> RemoveItem(cache, key)]

\* What the search form holds: the text of the search input and the cuisine
\* filter.
SearchForm(input, cuisine) == [input |-> input, cuisine |-> cuisine]

SearchForms ==
    <<SearchForm(Str_flour, ""),
      SearchForm(Str_milk \o <<" ">>, "italian"),
      SearchForm(<<" ">>, "")>>

\* `searchInput.value.trim()`
FormQuery(form) == trim(form.input)

\* The filters object performSearch builds: the properties set, in order.
FormFilters(form) ==
    IF form.cuisine # "" THEN <<<<"cuisine", form.cuisine>>>> ELSE <<>>

\* `search_${query}_${JSON.stringify(filters)}`
cacheKey(query, filters) == <<"search_", query, "_", filters>>

FormKey(form) == cacheKey(FormQuery(form), FormFilters(form))

\* The recipes the server finds for a request.
ServerResults(query, filters) ==
    IF query = <<>> THEN <<1, 2, 3>>
    ELSE IF query = Str_flour THEN <<1, 2>>
    ELSE <<2>>

\* What searchRecipes resolves to: the results of the response, or [] when
\* the fetch failed.
SearchRecipes(query, filters) == {ServerResults(query, filters), <<>>}

\* searchRecipesWithCache after its await: non-empty results are cached.
storeResults(cache, key, results, t) ==
    IF Len(results) > 0
    THEN cacheAPIResponse(cache, key, results, Some(SearchExpiryMinutes), t)
    ELSE cache

Request(query, filters, done) == [query |-> query, filters |-> filters, done |-> done]

\* Periods of SearchExpiryMinutes the modelled runs span.
MaxPeriods == 2

\* The Date.now() readings of the modelled runs: the last millisecond of a
\* period and the first of the next.
Instants ==
    {k * ExpiryMs(SearchExpiryMinutes) + j : k \in 0..MaxPeriods, j \in 0..1} \ {0}

\* Time passes between two calls.
Elapse ==
    /\ \E t \in Instants : t > now /\ now' = t
    /\ last' = NoOp
    /\ UNCHANGED <<stores, pendingGen, catCall, pendingFav, search>>

\* Forms whose keys the cache calls are made with.
CacheForms == {SearchForms[1], SearchForms[2]}

\* API.cacheAPIResponse(key, data, expiryMinutes)
CacheAPIResponse(key, data, expiryMinutes) ==
    /\ apiCache' = cacheAPIResponse(apiCache, key, data, expiryMinutes, now)
    /\ last' = ShopCall("cacheAPIResponse", key, TRUE, data)
    /\ UNCHANGED <<stores, pendingGen, catCall, now, pendingFav, requests, searchPage>>

\* API.getCachedAPIResponse(key); out is the entry found.
GetCachedAPIResponse(key) ==
    LET r == getCachedAPIResponse(apiCache, key, now)
    IN  /\ apiCache' = r.cache
        /\ last' = ShopCall("getCachedAPIResponse", key, r.ret, GetItem(apiCache, key))
        /\ UNCHANGED <<stores, pendingGen, catCall, now, pendingFav, requests, searchPage>>

\* API.searchRecipesWithCache(query, filters) up to its await.
SearchRecipesWithCacheStart(query, filters) ==
    /\ requests = NoRequests
    /\ LET r == getCachedAPIResponse(apiCache, cacheKey(query, filters), now)
       IN  /\ apiCache' = r.cache
           /\ IF r.ret.some
              THEN /\ requests' = requests
                   /\ last' = ShopCall("searchRecipesWithCache", cacheKey(query, filters),
                                       TRUE, r.ret.val)
              ELSE /\ requests' = <<Request(query, filters, FALSE)>>
                   /\ last' = ShopCall("searchRecipesWithCache:fetch",
                                       cacheKey(query, filters), TRUE, <<>>)
    /\ UNCHANGED <<stores, pendingGen, catCall, now, pendingFav, searchPage>>

\* API.searchRecipesWithCache(query, filters) after its await.
SearchRecipesWithCacheFinish ==
    /\ requests # NoRequests
    /\ \E results \in SearchRecipes(requests[1].query, requests[1].filters) :
          /\ apiCache' = storeResults(apiCache,
                                      cacheKey(requests[1].query, requests[1].filters),
                                      results, now)
          /\ last' = ShopCall("searchRecipesWithCache",
                              cacheKey(requests[1].query, requests[1].filters),
                              TRUE, results)
    /\ requests' = NoRequests
    /\ UNCHANGED <<stores, pendingGen, catCall, now, pendingFav, searchPage>>

InitCache ==
    /\ mealPlan = None
    /\ shoppingList = None
    /\ favorites = None
    /\ recentSearches = None
    /\ pendingGen = 0
    /\ last = NoOp
    /\ catCall = NoCall
    /\ now = 1
    /\ pendingFav = NoPendingFav
    /\ apiCache = NoCache
    /\ requests = NoRequests
    /\ searchPage = NoPage

NextCache ==
    \/ Elapse
    \/ \E form \in CacheForms, data \in {<<>>, <<1>>}, minutes \in {None, Some(30)} :
          CacheAPIResponse(FormKey(form), data, minutes)
    \/ \E form \in CacheForms : GetCachedAPIResponse(FormKey(form))
    \/ \E form \in CacheForms :
          SearchRecipesWithCacheStart(FormQuery(form), FormFilters(form))
    \/ SearchRecipesWithCacheFinish

SpecCache == InitCache /\ [][NextCache]_vars

----------------------------------------------------------------------------
(* Search page.                                                            *)

\* Most performSearch calls in a modelled run.
MaxSearches == 3

\* resultsTitle.textContent
Title(query) ==
    IF query # <<>> THEN <<"Results for \"", query, "\"">> ELSE <<"Popular Recipes">>

\* resultsCount.textContent
CountText(recipes) == <<NumberToString(Len(recipes)), " recipes found">>

\* The page once performSearch has its recipes.
Display(query, recipes) ==
    [title |-> Title(query), count |-> CountText(recipes), loading |-> FALSE,
     recipes |-> recipes]

\* `if (query) Storage.addRecentSearch(query)`
SaveSearch(stored, query) ==
    IF query # <<>> THEN addRecentSearch(stored, Some(query)) ELSE stored

\* performSearch() up to its await, with the form as the user left it.  A
\* cached result resolves before any other event is handled, so the call runs
\* to its end; otherwise the fetch is left pending.
PerformSearch(form) ==
    /\ Len(requests) < MaxSearches
    /\ \E r \in {getCachedAPIResponse(apiCache, FormKey(form), now)} :
          /\ apiCache' = r.cache
          /\ IF r.ret.some
             THEN /\ requests' = Append(requests,
                                        Request(FormQuery(form), FormFilters(form), TRUE))
                  /\ searchPage' = Display(FormQuery(form), r.ret.val)
                  /\ recentSearches' = SaveSearch(recentSearches, FormQuery(form))
                  /\ last' = ShopCall("performSearch", FormKey(form), TRUE, r.ret.val)
             ELSE /\ requests' = Append(requests,
                                        Request(FormQuery(form), FormFilters(form), FALSE))
                  /\ searchPage' = [searchPage EXCEPT !.loading = TRUE]
                  /\ recentSearches' = recentSearches
                  /\ last' = ShopCall("performSearch:fetch", FormKey(form), TRUE, <<>>)
    /\ UNCHANGED <<mealPlan, shoppingList, favorites, pendingGen, catCall, now, pendingFav>>

\* performSearch() after its await, for the i-th call: whichever pending
\* response arrives is shown.
PerformSearchFinish(i) ==
    /\ i \in 1..Len(requests)
    /\ ~requests[i].done
    /\ \E results \in SearchRecipes(requests[i].query, requests[i].filters) :
          /\ apiCache' = storeResults(apiCache,
                                      cacheKey(requests[i].query, requests[i].filters),
                                      results, now)
          /\ searchPage' = Display(requests[i].query, results)
          /\ last' = ShopCall("performSearch",
                              cacheKey(requests[i].query, requests[i].filters),
                              TRUE, results)
    /\ recentSearches' = SaveSearch(recentSearches, requests[i].query)
    /\ requests' = [requests EXCEPT ![i].done = TRUE]
    /\ UNCHANGED <<mealPlan, shoppingList, favorites, pendingGen, catCall, now, pendingFav>>

InitSearch ==
    /\ mealPlan = None
    /\ shoppingList = None
    /\ favorites = None
    /\ recentSearches \in {None, Some(<<Str_milk>>)}
    /\ pendingGen = 0
    /\ last = NoOp
    /\ catCall = NoCall
    /\ now = 1
    /\ pendingFav = NoPendingFav
    /\ apiCache = NoCache
    /\ requests = NoRequests
    /\ searchPage = NoPage

NextSearch ==
    \/ \E f \in 1..Len(SearchForms) : PerformSearch(SearchForms[f])
    \/ \E i \in 1..MaxSearches : PerformSearchFinish(i)

SpecSearch == InitSearch /\ [][NextSearch]_vars

----------------------------------------------------------------------------
(* Categorizer properties (checked under SpecCat).                         *)

\* The rules that have a keyword among the pieces of a hint.
RulesHit(pieces) ==
    {KeywordRule[pieces[i]] : i \in {j \in DOMAIN pieces : pieces[j] <= Len(Keywords)}}

EarliestRuleCategory(pieces) ==
    IF RulesHit(pieces) = {} THEN "other"
    ELSE RuleCategory[CHOOSE r \in RulesHit(pieces) : \A q \in RulesHit(pieces) : r <= q]

\* C7: a hint built from any combination of keywords is given the category of
\* the earliest rule (produce, meat, dairy, grains, spices, pantry) that has one
\* of its keywords in the hint, and 'other' when it contains no keyword.
C7_FirstMatchingRuleWins ==
    (catCall.called /\ catCall.hint.some)
        => catCall.result = EarliestRuleCategory(catCall.pieces)

\* "Seafood oil" has a meat keyword and a spices keyword and is categorized meat.
C7_Witness ==
    /\ catCall.called
    /\ catCall.pieces = <<5, 15>>
    /\ catCall.hint.some /\ catCall.hint.val[1] = "S"
    /\ catCall.result = "meat"

\* C8: every call returns one of the seven categories; the null and the empty
\* hint give 'other'; two hints that differ only in letter case give the same
\* category.
C8_TotalAndCaseInsensitive ==
    catCall.called =>
        /\ catCall.result \in Categories
        /\ (~catCall.hint.some \/ catCall.hint.val = <<>>) => catCall.result = "other"
        /\ catCall.result = catCall.variantResult

\* "CHEESE" and "cheese" are both categorized dairy.
C8_Witness ==
    /\ catCall.called
    /\ catCall.hint = Some(toUpperCase(Keywords[8]))
    /\ catCall.variant = Some(Keywords[8])
    /\ catCall.result = "dairy"
    /\ catCall.variantResult = "dairy"

----------------------------------------------------------------------------
(* Aggregator properties (checked under Spec).                             *)

Generated == last.op = "generateShoppingListFromMealPlan"

DayIndex(day) == CHOOSE i \in 1..Len(DAYS) : DAYS[i] = day

\* Every ingredient occurrence of the stored plan: <<day number, position of
\* the property in its day, position of the ingredient in its recipe>>.
Occurrences ==
    LET plan == getMealPlan(mealPlan)
        cells == UNION {{<<d, i>> : i \in 1..Len(plan[DAYS[d]])} : d \in 1..Len(DAYS)}
        ext(c) == RecipeBook[plan[DAYS[c[1]]][c[2]].v].extendedIngredients
        holding == {c \in cells : plan[DAYS[c[1]]][c[2]].v # NullRecipe /\ ext(c).some}
    IN  UNION {{<<c[1], c[2], j>> : j \in 1..Len(ext(c).val)} : c \in holding}

IngredientAt(o) ==
    RecipeBook[getMealPlan(mealPlan)[DAYS[o[1]]][o[2]].v].extendedIngredients.val[o[3]]

OccurrencesOf(name) == {o \in Occurrences : IngredientAt(o).name = name}

NamesInPlan == {IngredientAt(o).name : o \in Occurrences}

AmountOrZero(o) == IF IngredientAt(o).amount.some THEN IngredientAt(o).amount.val ELSE 0

LargestAmount(S) ==
    IF S = {} THEN 0
    ELSE AmountOrZero(CHOOSE o \in S : \A q \in S : AmountOrZero(q) <= AmountOrZero(o))

\* a * (number of occurrences with amount a), summed over a = 1..top.
RECURSIVE WeightedCount(_, _)
WeightedCount(S, top) ==
    IF top = 0 THEN 0
    ELSE top * Cardinality({o \in S : AmountOrZero(o) = top}) + WeightedCount(S, top - 1)

\* The sum of (amount or 0) over a set of occurrences.
SumAmounts(S) == WeightedCount(S, LargestAmount(S))

EntriesNamed(name) == {i \in 1..Len(last.out) : last.out[i].name = name}

\* C1: the aggregated list has exactly one entry for every ingredient name of
\* the plan and none for other names, and the entry's amount is the sum of
\* (amount or 0) over all occurrences of that exact name.
C1_MergeByNameSumsAmounts ==
    Generated =>
        /\ \A i \in 1..Len(last.out) : last.out[i].name \in NamesInPlan
        /\ \A name \in NamesInPlan :
              /\ Cardinality(EntriesNamed(name)) = 1
              /\ \A i \in EntriesNamed(name) :
                    last.out[i].amount = SumAmounts(OccurrencesOf(name))

\* Recipe 1 (flour 2) and recipe 2 (flour 1) in two slots give one flour entry
\* with amount 3.
C1_Witness ==
    /\ Generated
    /\ GetProp(getMealPlan(mealPlan)["monday"], "lunch") = 1
    /\ GetProp(getMealPlan(mealPlan)["monday"], "dinner") = 2
    /\ Cardinality(OccurrencesOf(Str_flour)) = 2
    /\ \E i \in 1..Len(last.out) :
          last.out[i].name = Str_flour /\ last.out[i].amount = 3

\* C2: two ingredient names of the plan that differ only in letter case have
\* two separate entries, each with the sum of its own occurrences.
C2_MergeKeyIsCaseSensitive ==
    Generated =>
        \A n1 \in NamesInPlan, n2 \in NamesInPlan :
            (n1 # n2 /\ toLowerCase(n1) = toLowerCase(n2)) =>
                \E i \in 1..Len(last.out), j \in 1..Len(last.out) :
                    /\ i # j
                    /\ last.out[i].name = n1
                    /\ last.out[j].name = n2
                    /\ last.out[i].amount = SumAmounts(OccurrencesOf(n1))
                    /\ last.out[j].amount = SumAmounts(OccurrencesOf(n2))

\* "flour" (2 + 1) and "Flour" (1) are listed separately.
C2_Witness ==
    /\ Generated
    /\ \E i \in 1..Len(last.out), j \in 1..Len(last.out) :
          /\ last.out[i].name = Str_flour /\ last.out[i].amount = 3
          /\ last.out[j].name = Str_Flour /\ last.out[j].amount = 1

\* The occurrence of a name met first: earliest day, then earliest property of
\* the day, then earliest ingredient of the recipe.
Before(o1, o2) ==
    \/ o1[1] < o2[1]
    \/ o1[1] = o2[1] /\ o1[2] < o2[2]
    \/ o1[1] = o2[1] /\ o1[2] = o2[2] /\ o1[3] <= o2[3]

FirstOccurrence(name) ==
    CHOOSE o \in OccurrencesOf(name) : \A q \in OccurrencesOf(name) : Before(o, q)

\* C3: an entry's unit and category are those of the first-met occurrence of
\* its name (unit or '', categorize(aisle or name)), whatever later occurrences
\* carry.
C3_UnitAndCategoryOfFirstOccurrence ==
    Generated =>
        \A i \in 1..Len(last.out) :
            LET first == IngredientAt(FirstOccurrence(last.out[i].name))
            IN  /\ last.out[i].unit = (IF first.unit.some THEN first.unit.val ELSE <<>>)
                /\ last.out[i].category =
                      categorizeIngredient(
                          IF first.aisle.some /\ first.aisle.val # <<>>
                          THEN first.aisle ELSE Some(first.name))
                /\ last.out[i].checked = FALSE

\* flour first met in recipe 1 (unit g, aisle Baking), then in recipe 2 (unit
\* kg, aisle Produce): the entry keeps g and 'other' while its amount grew.
C3_Witness ==
    /\ Generated
    /\ GetProp(getMealPlan(mealPlan)["monday"], "lunch") = 1
    /\ GetProp(getMealPlan(mealPlan)["sunday"], "breakfast") = 2
    /\ \E i \in 1..Len(last.out) :
          /\ last.out[i].name = Str_flour
          /\ last.out[i].unit = Str_g
          /\ last.out[i].category = "other"
          /\ last.out[i].amount > 2


\* The populated slots of the 7 x 3 grid, numbered day-major, meal-minor.
SlotDay(s) == DAYS[((s - 1) \div Len(MEAL_TYPES)) + 1]

SlotMeal(s) == MEAL_TYPES[((s - 1) % Len(MEAL_TYPES)) + 1]

SlotRecipe(s) == GetProp(getMealPlan(mealPlan)[SlotDay(s)], SlotMeal(s))

PopulatedSlots == {s \in 1..NumSlots : SlotRecipe(s) # NullRecipe}

\* The k-th populated slot in grid order.
NthPopulated(k) ==
    CHOOSE s \in PopulatedSlots : Cardinality({q \in PopulatedSlots : q < s}) = k - 1

GridListing ==
    [k \in 1..Cardinality(PopulatedSlots) |->
        [day |-> SlotDay(NthPopulated(k)), mealType |-> SlotMeal(NthPopulated(k)),
         recipe |-> SlotRecipe(NthPopulated(k))]]

\* Ingredient occurrences of the grid: <<slot number, position in the recipe>>.
GridOccurrencesOf(name) ==
    UNION {{<<s, j>> : j \in {q \in 1..Len(RecipeBook[SlotRecipe(s)].extendedIngredients.val) :
                               RecipeBook[SlotRecipe(s)].extendedIngredients.val[q].name = name}} :
           s \in {q \in PopulatedSlots : RecipeBook[SlotRecipe(q)].extendedIngredients.some}}

GridBefore(o1, o2) == o1[1] < o2[1] \/ (o1[1] = o2[1] /\ o1[2] <= o2[2])

FirstInGrid(name) ==
    CHOOSE o \in GridOccurrencesOf(name) : \A q \in GridOccurrencesOf(name) : GridBefore(o, q)

\* C4: in every reachable plan getAllMealsFromPlan returns exactly the populated
\* slots of the grid in day-major, meal-minor order, and the aggregated entries
\* are in the order in which their names are first met in that traversal.
C4_GridTraversalOrder ==
    /\ last.op = "getAllMealsFromPlan" => last.out = GridListing
    /\ Generated =>
          /\ \A i \in 1..Len(last.out) : GridOccurrencesOf(last.out[i].name) # {}
          /\ \A i \in 1..Len(last.out), j \in 1..Len(last.out) :
                i < j => /\ FirstInGrid(last.out[i].name) # FirstInGrid(last.out[j].name)
                         /\ GridBefore(FirstInGrid(last.out[i].name),
                                       FirstInGrid(last.out[j].name))

\* C5: on a plan with no recipe the list is empty; only recipes that have an
\* ingredient list contribute entries; an absent amount adds 0 to its entry.
C5_MissingDataContributesNothing ==
    Generated =>
        /\ (\A d \in DaySet : \A i \in 1..Len(getMealPlan(mealPlan)[d]) :
                getMealPlan(mealPlan)[d][i].v = NullRecipe) => last.out = <<>>
        /\ Len(last.out) = Cardinality(NamesInPlan)
        /\ \A i \in 1..Len(last.out) :
              last.out[i].amount =
                  SumAmounts({o \in OccurrencesOf(last.out[i].name) :
                                 IngredientAt(o).amount.some})

\* Recipe 3 (no ingredient list) and recipe 1 (milk without amount) alone in
\* the plan: three entries, milk with amount 0.
C5_Witness ==
    /\ Generated
    /\ GetProp(getMealPlan(mealPlan)["monday"], "lunch") = 3
    /\ GetProp(getMealPlan(mealPlan)["monday"], "dinner") = 1
    /\ Cardinality(Occurrences) = 3
    /\ Len(last.out) = 3
    /\ \E i \in 1..Len(last.out) : last.out[i].name = Str_milk /\ last.out[i].amount = 0

----------------------------------------------------------------------------
(* Store properties.                                                       *)

\* C6: a step of generateShoppingListFromMealPlan or updateMealPlanSummary
\* leaves the four persisted records as they were (checked under SpecRead).
C6_AggregationIsPureRead ==
    [][last'.op \in {"generateShoppingListFromMealPlan", "updateMealPlanSummary"}
          => /\ mealPlan' = mealPlan
             /\ shoppingList' = shoppingList
             /\ favorites' = favorites
             /\ recentSearches' = recentSearches]_vars

\* The summary was computed over a populated plan beside a non-empty shopping
\* list, favorites and recent searches.
C6_Witness ==
    /\ last.op = "updateMealPlanSummary"
    /\ Len(last.out) > 0
    /\ mealPlan.some
    /\ shoppingList.some /\ Len(shoppingList.val) = 1
    /\ favorites.some /\ Len(favorites.val) = 1
    /\ recentSearches.some /\ Len(recentSearches.val) = 1

OtherSlotsKept(old, new, day, mealType) ==
    \A d \in DaySet, m \in MealTypeSet :
        (d # day \/ m # mealType) => GetProp(new[d], m) = GetProp(old[d], m)

\* C9: addMealToPlan(d, m, R) on a slot of the grid leaves R in slot (d, m),
\* removeMealFromPlan(d, m) leaves it empty, and both leave the other 20 slots
\* as they were.
C9_SlotRoundTrip ==
    [][/\ (last'.op = "addMealToPlan"
           /\ last'.day \in DaySet /\ last'.mealType \in MealTypeSet)
          => /\ last'.ret
             /\ GetProp(getMealPlan(mealPlan')[last'.day], last'.mealType) = last'.recipe
             /\ OtherSlotsKept(getMealPlan(mealPlan), getMealPlan(mealPlan'),
                               last'.day, last'.mealType)
       /\ (last'.op = "removeMealFromPlan"
           /\ last'.day \in DaySet /\ last'.mealType \in MealTypeSet)
          => /\ last'.ret
             /\ GetProp(getMealPlan(mealPlan')[last'.day], last'.mealType) = NullRecipe
             /\ OtherSlotsKept(getMealPlan(mealPlan), getMealPlan(mealPlan'),
                               last'.day, last'.mealType)]_vars

\* Recipe 2 was just put in monday dinner while monday lunch holds recipe 1.
C9_Witness ==
    /\ last = Call("addMealToPlan", "monday", "dinner", 2, TRUE, <<>>)
    /\ GetProp(getMealPlan(mealPlan)["monday"], "dinner") = 2
    /\ GetProp(getMealPlan(mealPlan)["monday"], "lunch") = 1

\* C10: addMealToPlan and removeMealFromPlan return false for every day that
\* is not one of the seven day names.
C10_InvalidDayReturnsFalse ==
    (last.op \in {"addMealToPlan", "removeMealFromPlan"} /\ last.day \notin DaySet)
        => last.ret = FALSE

----------------------------------------------------------------------------
(* Meal-plan shape and auto-generation (checked under Spec).               *)

\* The own property names of a day object, in order.
KeysOf(obj) == [i \in 1..Len(obj) |-> obj[i].k]

\* C11: the stored plan always has exactly the 7 day keys, each day exactly the
\* keys breakfast, lunch, dinner, and each slot is empty or holds one recipe.
C11_ExactlyTwentyOneSlots ==
    LET plan == getMealPlan(mealPlan)
    IN  /\ DOMAIN plan = DaySet
        /\ \A d \in DaySet :
              /\ Len(plan[d]) = Len(MEAL_TYPES)
              /\ {KeysOf(plan[d])[i] : i \in 1..Len(plan[d])} = MealTypeSet
              /\ \A i \in 1..Len(plan[d]) : plan[d][i].v \in Recipes \cup {NullRecipe}

\* Every slot of the grid is empty and no day has a property beside the grid.
AllSlotsEmpty(stored) ==
    /\ stored.some
    /\ DOMAIN stored.val = DaySet
    /\ \A d \in DaySet :
          /\ Len(stored.val[d]) = Len(MEAL_TYPES)
          /\ \A m \in MealTypeSet : HasOwn(stored.val[d], m) /\ GetProp(stored.val[d], m) = NullRecipe

\* Slot s (day-major, meal-minor) holds recipes[s] for s <= Len(recipes) and is
\* empty for the other slots; no day has a property beside the grid.
HoldsExactly(stored, recipes) ==
    /\ stored.some
    /\ DOMAIN stored.val = DaySet
    /\ \A d \in DaySet : Len(stored.val[d]) = Len(MEAL_TYPES)
    /\ \A s \in 1..NumSlots :
          /\ HasOwn(stored.val[SlotDay(s)], SlotMeal(s))
          /\ GetProp(stored.val[SlotDay(s)], SlotMeal(s)) =
                (IF s <= Len(recipes) THEN recipes[s] ELSE NullRecipe)

\* C12: generateAutoMealPlan, whatever the plan before it, first leaves all 21
\* slots empty, and when its fetch then resolves to k recipes with no other
\* operation in between, the first k slots in day-major, meal-minor order hold
\* recipes 1..k and the other 21 - k slots are empty.
C12_AutoGenerateFillsFirstK ==
    [][/\ last'.op = "generateAutoMealPlan:start" => AllSlotsEmpty(mealPlan')
       /\ (last.op = "generateAutoMealPlan:start" /\ last'.op = "generateAutoMealPlan:finish")
            => HoldsExactly(mealPlan', last'.out)]_vars

\* A fetch of 2 recipes has just filled monday breakfast and monday lunch; the
\* slots written before the call (monday dinner, sunday breakfast) are empty.
C12_Witness ==
    /\ last.op = "generateAutoMealPlan:finish"
    /\ Len(last.out) = 2
    /\ pendingGen = 0
    /\ HoldsExactly(mealPlan, last.out)
    /\ GetProp(mealPlan.val["monday"], "breakfast") = 1
    /\ GetProp(mealPlan.val["monday"], "lunch") = 2
    /\ GetProp(mealPlan.val["monday"], "dinner") = NullRecipe

\* C13: whatever ran while the fetch was pending, the plan left by the end of
\* generateAutoMealPlan holds the fetched recipes in the first slots and
\* nothing else.
C13_AutoGenerateIsAtomic ==
    [][last'.op = "generateAutoMealPlan:finish" => HoldsExactly(mealPlan', last'.out)]_vars

----------------------------------------------------------------------------
(* Shopping-list properties (checked under SpecShop).                      *)

SameNameIgnoringCase(n1, n2) == toUpperCase(n1) = toUpperCase(n2)

\* C14: addToShoppingList with a name equal, ignoring case, to the name of a
\* stored item returns false and leaves the stored list as it was; otherwise it
\* returns true and the list is the old one followed by one item with that
\* name, checked = false and the given category, or 'other' when none is given.
C14_DuplicateGuard ==
    [][last'.op = "addToShoppingList" =>
          LET item == last'.arg
              old == getShoppingList(shoppingList)
              new == getShoppingList(shoppingList')
          IN  IF \E i \in 1..Len(old) : SameNameIgnoringCase(old[i].name, item.name)
              THEN last'.ret = FALSE /\ shoppingList' = shoppingList
              ELSE /\ last'.ret = TRUE
                   /\ Len(new) = Len(old) + 1
                   /\ SubSeq(new, 1, Len(old)) = old
                   /\ new[Len(new)].name = item.name
                   /\ new[Len(new)].checked = FALSE
                   /\ new[Len(new)].category =
                         (IF item.category.some /\ item.category.val # ""
                          THEN item.category.val ELSE "other")]_vars

\* "Milk" was just refused because "milk" is stored, and "egg" was added before
\* with no category.
C14_Witness ==
    /\ last.op = "addToShoppingList"
    /\ last.arg.name = Str_Milk
    /\ last.ret = FALSE
    /\ Len(getShoppingList(shoppingList)) = 2
    /\ getShoppingList(shoppingList)[1].name = Str_milk
    /\ getShoppingList(shoppingList)[2].name = Str_egg
    /\ getShoppingList(shoppingList)[2].category = "other"

\* C15: no two items of the stored shopping list have names that are equal
\* ignoring case.
C15_NamesUniqueIgnoringCase ==
    LET list == getShoppingList(shoppingList)
    IN  \A i \in 1..Len(list), j \in 1..Len(list) :
            i # j => ~SameNameIgnoringCase(list[i].name, list[j].name)

\* A generated list with "flour" and "Flour" was committed: only "flour" is
\* stored.
C15_Witness ==
    /\ last.op = "generateShoppingList"
    /\ \E i \in 1..Len(last.out), j \in 1..Len(last.out) :
          last.out[i].name = Str_flour /\ last.out[j].name = Str_Flour
    /\ Len(getShoppingList(shoppingList)) = 2
    /\ \E i \in 1..Len(getShoppingList(shoppingList)) :
          getShoppingList(shoppingList)[i].name = Str_flour

\* C16: no two items of the stored shopping list have the same id.
C16_IdsUnique ==
    LET list == getShoppingList(shoppingList)
    IN  \A i \in 1..Len(list), j \in 1..Len(list) : i # j => list[i].id # list[j].id

\* C17: toggleShoppingItem(id) returns true and negates the checked flag of one
\* item, the first with that id, every other item and field staying as it was;
\* with no such item it returns false and the stored list is as it was.
C17_ToggleFlipsOneFlag ==
    [][last'.op = "toggleShoppingItem" =>
          LET old == getShoppingList(shoppingList)
              new == getShoppingList(shoppingList')
          IN  IF \E i \in 1..Len(old) : old[i].id = last'.arg
              THEN /\ last'.ret = TRUE
                   /\ Len(new) = Len(old)
                   /\ \E p \in 1..Len(old) :
                         /\ old[p].id = last'.arg
                         /\ \A q \in 1..(p - 1) : old[q].id # last'.arg
                         /\ new[p].checked = ~old[p].checked
                         /\ new[p].id = old[p].id
                         /\ new[p].name = old[p].name
                         /\ new[p].category = old[p].category
                         /\ new[p].addedAt = old[p].addedAt
                         /\ \A q \in 1..Len(old) : q # p => new[q] = old[q]
              ELSE last'.ret = FALSE /\ shoppingList' = shoppingList]_vars

\* The second of two items with different ids was just unchecked again; the
\* first stays checked.
C17_Witness ==
    /\ last.op = "toggleShoppingItem"
    /\ last.ret = TRUE
    /\ Len(getShoppingList(shoppingList)) = 2
    /\ getShoppingList(shoppingList)[1].id # getShoppingList(shoppingList)[2].id
    /\ getShoppingList(shoppingList)[2].id = last.arg
    /\ getShoppingList(shoppingList)[1].checked = TRUE
    /\ getShoppingList(shoppingList)[2].checked = FALSE

\* C18: removeFromShoppingList(id) takes exactly one item, one with that id,
\* out of the list and keeps the others in order; with no such item the list is
\* as it was.
C18_RemoveDeletesOneItem ==
    [][last'.op = "removeFromShoppingList" =>
          LET old == getShoppingList(shoppingList)
              new == getShoppingList(shoppingList')
          IN  IF \E i \in 1..Len(old) : old[i].id = last'.arg
              THEN /\ Len(new) = Len(old) - 1
                   /\ \E p \in 1..Len(old) :
                         /\ old[p].id = last'.arg
                         /\ new = SubSeq(old, 1, p - 1) \o SubSeq(old, p + 1, Len(old))
              ELSE new = old]_vars

\* C19: after generateShoppingList every stored item carries the name,
\* category, summed amount and unit of an aggregated entry, with checked = false.
C19_CommitKeepsAggregatedShape ==
    (last.op = "generateShoppingList" /\ last.ret = TRUE) =>
        LET list == getShoppingList(shoppingList)
        IN  \A i \in 1..Len(list) :
                \E j \in 1..Len(last.out) :
                    /\ list[i].name = last.out[j].name
                    /\ list[i].category = last.out[j].category.val
                    /\ list[i].checked = FALSE
                    /\ "amount" \in DOMAIN list[i]
                    /\ list[i].amount = last.out[j].amount
                    /\ "unit" \in DOMAIN list[i]
                    /\ list[i].unit = last.out[j].unit

----------------------------------------------------------------------------
(* Favorites properties (checked under SpecFav).                           *)

StoredWithId(stored, id) ==
    {i \in 1..Len(getFavorites(stored)) : RecipeBook[getFavorites(stored)[i].recipe].id = id}

\* C20: no two stored favorites have the same id; addToFavorites on an id that
\* is stored returns false and leaves the store as it was, otherwise it returns
\* true and the list is the old one followed by one snapshot of that recipe;
\* isInFavorites(id) returns true exactly when a favorite with that id is stored.
C20_FavoritesUniqueById ==
    [][/\ \A id \in {RecipeBook[r].id : r \in Recipes} :
             Cardinality(StoredWithId(favorites', id)) <= 1
       /\ last'.op = "addToFavorites" =>
             IF StoredWithId(favorites, last'.arg) # {}
             THEN last'.ret = FALSE /\ favorites' = favorites
             ELSE /\ last'.ret = TRUE
                  /\ Len(getFavorites(favorites')) = Len(getFavorites(favorites)) + 1
                  /\ SubSeq(getFavorites(favorites'), 1, Len(getFavorites(favorites)))
                        = getFavorites(favorites)
                  /\ StoredWithId(favorites', last'.arg) = {Len(getFavorites(favorites'))}
       /\ last'.op = "isInFavorites" =>
             (last'.ret <=> StoredWithId(favorites', last'.arg) # {})]_vars

\* Two toggleFavorite calls for recipe 1 overlapped: the second addToFavorites
\* was refused, recipe 1 is stored once beside recipe 2.
C20_Witness ==
    /\ last.op = "addToFavorites"
    /\ last.arg = 1
    /\ last.ret = FALSE
    /\ PendingTotal(pendingFav, NumRecipes) = 0
    /\ Len(getFavorites(favorites)) = 2
    /\ Cardinality(StoredWithId(favorites, 1)) = 1
    /\ Cardinality(StoredWithId(favorites, 2)) = 1

----------------------------------------------------------------------------
(* Storage failures (checked under SpecThrows and SpecGet).                *)

\* C21: a store operation whose storage write threw returns false.
C21_WriteFailureReported ==
    ("threw" \in DOMAIN last /\ last.threw) => last.ret = FALSE

NothingReadable(stored) == stored = None \/ stored = Garbled

\* C22: a read of a record that is absent or unreadable returns the default
\* (the all-empty 21-slot plan for getMealPlan, the empty sequence for
\* getShoppingList, getFavorites and getRecentSearches), and no read changes a
\* persisted record.
C22_ReadsNeverFail ==
    [][/\ last'.op \in {"getMealPlan", "getShoppingList", "getFavorites",
                        "getRecentSearches"}
          => /\ mealPlan' = mealPlan
             /\ shoppingList' = shoppingList
             /\ favorites' = favorites
             /\ recentSearches' = recentSearches
       /\ (last'.op = "getMealPlan" /\ NothingReadable(mealPlan))
          => AllSlotsEmpty(Some(last'.out))
       /\ (last'.op = "getShoppingList" /\ NothingReadable(shoppingList))
          => last'.out = <<>>
       /\ (last'.op = "getFavorites" /\ NothingReadable(favorites))
          => last'.out = <<>>
       /\ (last'.op = "getRecentSearches" /\ NothingReadable(recentSearches))
          => last'.out = <<>>]_vars

\* getMealPlan has just returned the empty plan for an unreadable record, the
\* shopping list being stored and readable.
C22_Witness ==
    /\ last.op = "getMealPlan"
    /\ mealPlan = Garbled
    /\ AllSlotsEmpty(Some(last.out))
    /\ shoppingList # None /\ shoppingList # Garbled
    /\ favorites = None

----------------------------------------------------------------------------
(* Recent searches (checked under SpecRecent).                             *)

NoStringTwice(s) == \A i, j \in 1..Len(s) : s[i] = s[j] => i = j

Blank(query) ==
    ~query.some \/ \A i \in 1..Len(query.val) : query.val[i] \in Whitespace

Without(s, q) == SelectSeq(s, LAMBDA x : x # q)

\* C23: after every addRecentSearch the log holds at most 10 entries, none
\* twice, the query first and the earlier entries after it in their earlier
\* order (so a query already in the log moves to the front and the log does
\* not grow); a blank query leaves the log unchanged.
C23_RecentSearchesLog ==
    [][last'.op = "addRecentSearch" =>
        LET query == last'.arg
            old == getRecentSearches(recentSearches)
            new == getRecentSearches(recentSearches')
        IN  IF Blank(query) THEN recentSearches' = recentSearches
            ELSE /\ Len(new) <= 10
                 /\ NoStringTwice(new)
                 /\ new[1] = query.val
                 /\ \A i \in 2..Len(new) : new[i] = Without(old, query.val)[i - 1]
                 /\ Len(new) = (IF Len(Without(old, query.val)) < 9
                                THEN Len(Without(old, query.val)) + 1 ELSE 10)
                 /\ (\E i \in 1..Len(old) : old[i] = query.val)
                        => Len(new) = Len(old)]_vars

\* A query that was third in a full log has just been searched again: it is
\* now first and the log still has ten entries.
C23_Witness ==
    /\ last.op = "addRecentSearch"
    /\ last.arg.some
    /\ Len(last.out) = 10
    /\ last.out[3] = last.arg.val
    /\ recentSearches.val[1] = last.arg.val
    /\ Len(recentSearches.val) = 10

----------------------------------------------------------------------------
(* Store independence (checked under SpecIndep).                           *)

MealPlanOps ==
    {"addMealToPlan", "removeMealFromPlan", "clearMealPlan", "getAllMealsFromPlan",
     "generateShoppingListFromMealPlan", "generateAutoMealPlan:start",
     "generateAutoMealPlan:finish"}

ShoppingListOps ==
    {"addToShoppingList", "toggleShoppingItem", "removeFromShoppingList",
     "clearShoppingList"}

FavoritesOps ==
    {"addToFavorites", "removeFromFavorites", "clearFavorites", "isInFavorites",
     "toggleFavorite:fetch", "toggleFavorite:failed"}

\* C24: a meal-plan operation leaves the shopping list, the favorites and the
\* recent searches as they were; a shopping-list operation leaves the meal plan
\* and the favorites as they were; a favorites operation leaves the meal plan
\* and the shopping list as they were.
C24_StoreIndependence ==
    [][/\ last'.op \in MealPlanOps
          => /\ shoppingList' = shoppingList
             /\ favorites' = favorites
             /\ recentSearches' = recentSearches
       /\ last'.op \in ShoppingListOps
          => /\ mealPlan' = mealPlan
             /\ favorites' = favorites
       /\ last'.op \in FavoritesOps
          => /\ mealPlan' = mealPlan
             /\ shoppingList' = shoppingList]_vars

\* The shopping list has just been cleared while a meal plan and a favorite
\* are stored.
C24_Witness ==
    /\ last.op = "clearShoppingList"
    /\ shoppingList = clearShoppingList
    /\ mealPlan # None
    /\ favorites = Some(<<Favorite(1, 1)>>)

----------------------------------------------------------------------------
(* Unit of a merged entry (checked under Spec).                            *)

LastOccurrence(name) ==
    CHOOSE o \in OccurrencesOf(name) : \A q \in OccurrencesOf(name) : Before(q, o)

UnitOrEmpty(ingredient) == IF ingredient.unit.some THEN ingredient.unit.val ELSE <<>>

\* C25 as written: the unit of an entry is the unit of the last-met occurrence
\* of its name.
C25_UnitOfLastOccurrence ==
    Generated =>
        \A i \in 1..Len(last.out) :
            last.out[i].unit = UnitOrEmpty(IngredientAt(LastOccurrence(last.out[i].name)))

\* C25, with the first occurrence in place of the last: an entry merged from
\* several occurrences of a name carries the unit of the first-met one.
C25_MergedUnitOfFirstOccurrence ==
    Generated =>
        \A i \in 1..Len(last.out) :
            Cardinality(OccurrencesOf(last.out[i].name)) > 1 =>
                last.out[i].unit =
                    UnitOrEmpty(IngredientAt(FirstOccurrence(last.out[i].name)))

\* An entry merged from occurrences whose first and last units differ carries
\* the first one.
C25_Witness ==
    /\ Generated
    /\ \E i \in 1..Len(last.out) :
          LET name == last.out[i].name
              first == UnitOrEmpty(IngredientAt(FirstOccurrence(name)))
              final == UnitOrEmpty(IngredientAt(LastOccurrence(name)))
          IN  /\ Cardinality(OccurrencesOf(name)) > 1
              /\ first # final
              /\ last.out[i].unit = first

----------------------------------------------------------------------------
(* Committing a generated list (checked under SpecShop).                   *)

\* C26: after generateShoppingList on a plan with n >= 1 aggregated entries the
\* stored list has exactly n items, the i-th named as the i-th aggregated entry
\* (n being the count the success message reports).
C26_CommitStoresEveryEntry ==
    (last.op = "generateShoppingList" /\ Len(last.out) >= 1) =>
        LET list == getShoppingList(shoppingList)
        IN  /\ Len(list) = Len(last.out)
            /\ \A i \in 1..Len(list) : list[i].name = last.out[i].name

----------------------------------------------------------------------------
(* Amount conservation (checked under Spec).                               *)

\* The sum of the amounts of the first n entries.
RECURSIVE SumEntries(_, _)
SumEntries(entries, n) ==
    IF n = 0 THEN 0 ELSE entries[n].amount + SumEntries(entries, n - 1)

----------------------------------------------------------------------------
(* Generating from an empty aggregation (checked under SpecShop).          *)

\* C28: when the aggregation of the stored plan is empty, generateShoppingList
\* leaves the stored shopping list as it was.
C28_EmptyAggregationKeepsList ==
    [][(last'.op = "generateShoppingList"
        /\ generateShoppingListFromMealPlan(mealPlan) = <<>>)
       => shoppingList' = shoppingList]_vars

\* generateShoppingList has just found nothing to aggregate, and the stored
\* list still holds a manually added item that was checked off.
C28_Witness ==
    /\ last.op = "generateShoppingList"
    /\ last.ret = FALSE
    /\ generateShoppingListFromMealPlan(mealPlan) = <<>>
    /\ \E i \in 1..Len(getShoppingList(shoppingList)) :
          getShoppingList(shoppingList)[i].checked

----------------------------------------------------------------------------
(* API cache expiry (checked under SpecCache).                             *)

Stores == {"cacheAPIResponse", "searchRecipesWithCache"}

\* C29: getCachedAPIResponse(key) returns the stored data while
\* now - timestamp < expiry and leaves the entry; at or after expiry it returns
\* null and removes the entry; with no entry it returns null, and an entry only
\* appears through cacheAPIResponse; searchRecipesWithCache stores no empty
\* result list.
C29_CacheExpiry ==
    [][/\ last'.op = "getCachedAPIResponse" =>
            LET key == last'.arg
            IN  IF key \notin DOMAIN apiCache
                THEN last'.ret = None /\ apiCache' = apiCache
                ELSE IF now - apiCache[key].timestamp < apiCache[key].expiry
                THEN last'.ret = Some(apiCache[key].data) /\ apiCache' = apiCache
                ELSE /\ last'.ret = None
                     /\ key \notin DOMAIN apiCache'
                     /\ \A k \in DOMAIN apiCache \ {key} :
                           k \in DOMAIN apiCache' /\ apiCache'[k] = apiCache[k]
       /\ \A key \in DOMAIN apiCache' \ DOMAIN apiCache : last'.op \in Stores
       /\ last'.op \in {"searchRecipesWithCache", "searchRecipesWithCache:fetch"} =>
            \A key \in DOMAIN apiCache' :
                (key \notin DOMAIN apiCache \/ apiCache'[key] # apiCache[key])
                    => Len(apiCache'[key].data) > 0]_vars

\* A read exactly at expiry (now - timestamp = expiry) has just returned null
\* and removed the entry.
C29_Witness ==
    /\ last.op = "getCachedAPIResponse"
    /\ last.out.some
    /\ now - last.out.val.timestamp = last.out.val.expiry
    /\ last.ret = None
    /\ last.arg \notin DOMAIN apiCache

----------------------------------------------------------------------------
(* Overlapping searches (checked under SpecSearch).                        *)

\* C30: once every performSearch call has completed, the page shows the title,
\* the count and the results of the call issued last.
C30_LatestSearchShown ==
    (requests # <<>> /\ \A i \in 1..Len(requests) : requests[i].done) =>
        LET latest == requests[Len(requests)]
        IN  /\ searchPage.title = Title(latest.query)
            /\ ~searchPage.loading
            /\ searchPage.recipes \in SearchRecipes(latest.query, latest.filters)
            /\ searchPage.count = CountText(searchPage.recipes)

====
